---- MODULE Spec2Model ----
(***************************************************************************)
(* A model of the battery monitor of src/main.rs: BatteryMonitor (the      *)
(* polling cycle get_battery_info, the power smoothing and the             *)
(* time-remaining estimate) and the TemperatureMonitor it owns.            *)
(*                                                                         *)
(* Numbers.  The program computes in f64.  The model computes in exact     *)
(* rationals (records [n, d], d > 0, in lowest terms), f64 rounding error  *)
(* left out, everywhere but in the power trend: get_power_trend compares   *)
(* a sum of differences with a threshold the sum can meet exactly, and     *)
(* there the model computes in binary64, bit for bit.  A division whose    *)
(* divisor is zero follows IEEE 754 (an infinity or a NaN), because the    *)
(* program's `.max(1.0) as u32` is defined on those.  Integers (u8, i32,   *)
(* u32) keep their Rust semantics.                                         *)
(*                                                                         *)
(* Files.  Every sysfs attribute read by a cycle is an input of that       *)
(* cycle: a record [k, v] with k = "none" (missing or unreadable),         *)
(* k = "bad" (text that is no number) or k = "num" (the decimal integer    *)
(* v); the status attribute is an optional string.  An attribute read      *)
(* more than once in a cycle has the same content at every read.           *)
(***************************************************************************)
EXTENDS Integers, Sequences, FiniteSets, TLC

(***************************************************************************)
(* Option<T>: None is the empty sequence, Some(v) the one-element one.     *)
(***************************************************************************)
None == << >>
Some(v) == << v >>
IsSome(o) == o /= << >>
IsNone(o) == o = << >>
Unwrap(o) == o[1]

(***************************************************************************)
(* Exact rational arithmetic standing for f64.                             *)
(***************************************************************************)
AbsInt(i) == IF i < 0 THEN -i ELSE i

RECURSIVE Gcd(_, _)
Gcd(a, b) == IF b = 0 THEN a ELSE Gcd(b, a % b)

RNorm(n, d) ==
    LET s == IF d < 0 THEN -1 ELSE 1
        g == Gcd(AbsInt(n), AbsInt(d))
    IN  [n |-> (s * n) \div g, d |-> (s * d) \div g]

R(i) == [n |-> i, d |-> 1]
RAdd(a, b) == RNorm(a.n * b.d + b.n * a.d, a.d * b.d)
RNeg(a) == [n |-> -a.n, d |-> a.d]
RSub(a, b) == RAdd(a, RNeg(b))
RMul(a, b) ==
    LET g1 == Gcd(AbsInt(a.n), b.d)
        g2 == Gcd(AbsInt(b.n), a.d)
    IN  RNorm((a.n \div g1) * (b.n \div g2), (a.d \div g2) * (b.d \div g1))
RInv(a) == RNorm(a.d, a.n)
RDiv(a, b) == RMul(a, RInv(b))
RLt(a, b) == a.n * b.d < b.n * a.d
RLe(a, b) == a.n * b.d <= b.n * a.d
RGt(a, b) == RLt(b, a)
RGe(a, b) == RLe(b, a)
RAbs(a) == [n |-> AbsInt(a.n), d |-> a.d]
RMax(a, b) == IF RLt(a, b) THEN b ELSE a
RZero == R(0)
RIsZero(a) == a.n = 0
\* truncation toward zero of a non-negative rational (the integer part)
RTrunc(a) == a.n \div a.d

RECURSIVE RSumTo(_, _)
RSumTo(s, k) == IF k = 0 THEN RZero ELSE RAdd(RSumTo(s, k - 1), s[k])
RSum(s) == RSumTo(s, Len(s))

(***************************************************************************)
(* Configuration constants, src/main.rs lines 56-65.                       *)
(***************************************************************************)
POWER_SMOOTHING_ALPHA == RNorm(25, 100)
MIN_POWER_THRESHOLD == RNorm(5, 100)
MAX_HISTORY_SIZE == 300
UPDATE_INTERVAL_SECS == 2
PROGRAM_DURATION_SECS == 20
MIN_SAMPLES_FOR_ESTIMATE == 3
ROLLING_WINDOW_SIZE == 10
MIN_VALID_TEMP == R(10)
MAX_VALID_TEMP == R(110)

(***************************************************************************)
(* The content of a sysfs attribute, and the parsers the program applies   *)
(* to it (str::parse behind read_as_number).                               *)
(***************************************************************************)
NoFile == [k |-> "none", v |-> 0]
BadFile == [k |-> "bad", v |-> 0]
Num(i) == [k |-> "num", v |-> i]

\* read_as_number::<f64>: any decimal integer parses
read_as_f64(f) == IF f.k = "num" THEN Some(R(f.v)) ELSE None
\* read_as_number::<u8>: parses only within 0..255
read_as_u8(f) == IF f.k = "num" /\ f.v >= 0 /\ f.v <= 255 THEN Some(f.v) ELSE None
\* read_as_number::<i32>
read_as_i32(f) == IF f.k = "num" THEN Some(f.v) ELSE None
\* read_as_number::<u32>
read_as_u32(f) == IF f.k = "num" /\ f.v >= 0 THEN Some(f.v) ELSE None

\* Rust's integer division truncates toward zero
RustDiv(a, b) == IF a >= 0 THEN a \div b ELSE -((-a) \div b)

\* Option::map and Option::unwrap_or on the model's options
MapDiv(o, k) == IF IsSome(o) THEN Some(RDiv(Unwrap(o), R(k))) ELSE None
UnwrapOr(o, dflt) == IF IsSome(o) THEN Unwrap(o) ELSE dflt

(***************************************************************************)
(* BatteryMonitor::read_energy_values: energy_* in uWh, else               *)
(* charge_* (uAh) times voltage_now (uV) over 10^12.                       *)
(***************************************************************************)
ChargeTimesVoltage(charge_file, voltage_file) ==
    LET charge == read_as_f64(charge_file)
        voltage == read_as_f64(voltage_file)
    IN  IF IsNone(charge) \/ IsNone(voltage) THEN None
        ELSE Some(RMul(RDiv(Unwrap(charge), R(1000000)),
                       RDiv(Unwrap(voltage), R(1000000))))

read_energy_now(in) ==
    LET direct == MapDiv(read_as_f64(in.energy_now), 1000000)
    IN  IF IsSome(direct) THEN direct
        ELSE ChargeTimesVoltage(in.charge_now, in.voltage_now)

read_energy_full(in) ==
    LET direct == MapDiv(read_as_f64(in.energy_full), 1000000)
    IN  IF IsSome(direct) THEN direct
        ELSE ChargeTimesVoltage(in.charge_full, in.voltage_now)

(***************************************************************************)
(* BatteryMonitor::read_power: power_now (uW), else voltage * |current|.   *)
(***************************************************************************)
\* the second method without the absolute value of the current
read_power_signed(in, voltage_v, current_ma) ==
    LET direct == read_as_f64(in.power_now)
    IN  IF IsSome(direct) THEN Some(RDiv(Unwrap(direct), R(1000000)))
        ELSE IF IsSome(voltage_v) /\ IsSome(current_ma)
             THEN Some(RMul(Unwrap(voltage_v),
                            RDiv(R(Unwrap(current_ma)), R(1000))))
             ELSE None

read_power(in, voltage_v, current_ma) ==
    LET direct == read_as_f64(in.power_now)
    IN  IF IsSome(direct) THEN Some(RDiv(Unwrap(direct), R(1000000)))
        ELSE IF IsSome(voltage_v) /\ IsSome(current_ma)
             THEN Some(RMul(Unwrap(voltage_v),
                            RDiv(R(AbsInt(Unwrap(current_ma))), R(1000))))
             ELSE None

(***************************************************************************)
(* BatteryMonitor::update_smoothed_power, its two halves: the exponential  *)
(* moving average and the rolling window.                                  *)
(***************************************************************************)
SmoothedAfterSwapped(prev, current_power) ==
    IF IsSome(prev)
    THEN Some(RAdd(RMul(RSub(R(1), POWER_SMOOTHING_ALPHA), current_power),
                   RMul(POWER_SMOOTHING_ALPHA, Unwrap(prev))))
    ELSE Some(current_power)

SmoothedAfter(prev, current_power) ==
    IF IsSome(prev)
    THEN Some(RAdd(RMul(POWER_SMOOTHING_ALPHA, current_power),
                   RMul(RSub(R(1), POWER_SMOOTHING_ALPHA), Unwrap(prev))))
    ELSE Some(current_power)

\* a cycle without power smoothed as a cycle with 0 W
SmoothedIfPowerElseZero(prev, power_w) ==
    SmoothedAfter(prev, IF IsSome(power_w) THEN Unwrap(power_w) ELSE RZero)

\* `if let Some(power) = power_w { self.update_smoothed_power(power); .. }`:
\* the smoothed power after a cycle
SmoothedIfPower(prev, power_w) ==
    IF IsSome(power_w) THEN SmoothedAfter(prev, Unwrap(power_w)) ELSE prev

\* the window that never gives up its oldest sample
WindowAfterUnbounded(window, current_power) == Append(window, current_power)

\* the window that starts over when it is full
WindowAfterRestarted(window, current_power) ==
    LET pushed == Append(window, current_power)
    IN  IF Len(pushed) > ROLLING_WINDOW_SIZE THEN << current_power >> ELSE pushed

WindowAfter(window, current_power) ==
    LET pushed == Append(window, current_power)
    IN  IF Len(pushed) > ROLLING_WINDOW_SIZE THEN Tail(pushed) ELSE pushed

(***************************************************************************)
(* BatteryMonitor::get_rolling_average_power.                              *)
(***************************************************************************)
get_rolling_average_power(window, smoothed) ==
    IF Len(window) < 3 THEN smoothed
    ELSE Some(RDiv(RSum(window), R(Len(window))))

(***************************************************************************)
(* BatteryMonitor::calculate_time_remaining.                               *)
(***************************************************************************)
\* the blend with the middle tier left out: the rolling average is blended
\* in from the fifth sample on
weighted_power_two_tiers(instantaneous_power, smoothed, rolling_power, n) ==
    IF n < 5
    THEN RAdd(RMul(RNorm(8, 10), instantaneous_power), RMul(RNorm(2, 10), smoothed))
    ELSE RAdd(RAdd(RMul(RNorm(2, 10), instantaneous_power),
                   RMul(RNorm(3, 10), smoothed)),
              RMul(RNorm(5, 10), rolling_power))

\* the blend of instantaneous, smoothed and rolling power, by history size
weighted_power(instantaneous_power, smoothed, rolling_power, n) ==
    IF n < 5
    THEN RAdd(RMul(RNorm(8, 10), instantaneous_power), RMul(RNorm(2, 10), smoothed))
    ELSE IF n < ROLLING_WINDOW_SIZE
    THEN RAdd(RMul(RNorm(5, 10), instantaneous_power), RMul(RNorm(5, 10), smoothed))
    ELSE RAdd(RAdd(RMul(RNorm(2, 10), instantaneous_power),
                   RMul(RNorm(3, 10), smoothed)),
              RMul(RNorm(5, 10), rolling_power))

\* the cast without the floor of one minute: `(hours * 60.0) as u32`,
\* which saturates a negative value to 0
MinutesOfUnfloored(num, den) ==
    CASE ~RIsZero(den) -> RTrunc(RMax(RMul(RDiv(num, den), R(60)), RZero))
      [] RIsZero(den) /\ num.n <= 0 -> 0

\* the cast after rounding: `(hours * 60.0).max(1.0).round() as u32`
MinutesOfRounded(num, den) ==
    CASE ~RIsZero(den) ->
            LET m == RMax(RMul(RDiv(num, den), R(60)), R(1))
            IN  (2 * m.n + m.d) \div (2 * m.d)
      [] RIsZero(den) /\ num.n <= 0 -> 1

\* `(hours * 60.0).max(1.0) as u32` for hours = num / den.  With den = 0 the
\* quotient is -inf (num < 0) or NaN (num = 0), and max(1.0) of either is
\* 1.0.  num > 0 with den = 0 is +inf, which the cast saturates to u32::MAX:
\* that needs a negative energy_full, which no input of the model has.
MinutesOf(num, den) ==
    CASE ~RIsZero(den) -> RTrunc(RMax(RMul(RDiv(num, den), R(60)), R(1)))
      [] RIsZero(den) /\ num.n <= 0 -> 1

\* the tiers tested from the top: the trickle tier before the 80% tier
charging_efficiency_top_down(charge_progress) ==
    IF RGt(charge_progress, RNorm(95, 100))
    THEN RNorm(3, 10)
    ELSE IF RGt(charge_progress, RNorm(8, 10))
    THEN RAdd(RNorm(6, 10), RMul(RSub(RNorm(9, 10), charge_progress), R(2)))
    ELSE RNorm(9, 10)

\* the charge-curve efficiency, in the order the code tests the tiers
charging_efficiency(charge_progress) ==
    IF RGt(charge_progress, RNorm(8, 10))
    THEN RAdd(RNorm(6, 10), RMul(RSub(RNorm(9, 10), charge_progress), R(2)))
    ELSE IF RGt(charge_progress, RNorm(95, 100))
    THEN RNorm(3, 10)
    ELSE RNorm(9, 10)

\* Charging with both energies known and weighted power > 0.  energy_full = 0
\* makes charge_progress +inf (energy_now > 0: the efficiency and the
\* effective power are -inf, hours is 0), NaN (energy_now = 0: no
\* comparison holds, efficiency 0.9, hours is 0) or -inf (efficiency 0.9).
ChargingMinutes(energy_now, energy_full, weighted) ==
    LET energy_to_charge == RSub(energy_full, energy_now)
    IN  IF RIsZero(energy_full)
        THEN IF energy_now.n >= 0 THEN 1
             ELSE MinutesOf(energy_to_charge, RMul(weighted, RNorm(9, 10)))
        ELSE LET charge_progress == RDiv(energy_now, energy_full)
                 effective_power ==
                     RMul(weighted, charging_efficiency(charge_progress))
             IN  MinutesOf(energy_to_charge, effective_power)

\* Discharging without energy_now: capacity and current draw
DischargingFallback(info) ==
    IF IsSome(info.voltage_v) /\ IsSome(info.current_ma)
       /\ Unwrap(info.current_ma) < 0 /\ RGt(Unwrap(info.voltage_v), RZero)
    THEN LET voltage == Unwrap(info.voltage_v)
             capacity_fraction == RDiv(R(info.capacity_percent), R(100))
             estimated_energy == RMul(RMul(voltage, R(3)), capacity_fraction)
             power == RMul(voltage, RDiv(R(-Unwrap(info.current_ma)), R(1000)))
         IN  IF RGt(power, MIN_POWER_THRESHOLD)
             THEN Some(MinutesOf(estimated_energy, power))
             ELSE None
    ELSE None

\* `a - b` on u8.  Below zero the subtraction overflows: a build with
\* overflow checks (the dev profile) panics there, a build without (the
\* release profile) wraps modulo 256.  v is the wrapped value.
U8Sub(a, b) ==
    IF a >= b THEN [overflow |-> FALSE, v |-> a - b]
    ELSE [overflow |-> TRUE, v |-> (a - b) + 256]

\* Charging without both energies: voltage-tiered capacity estimate
ChargingFallback(info) ==
    IF IsSome(info.voltage_v) /\ IsSome(info.current_ma)
       /\ Unwrap(info.current_ma) > 0 /\ RGt(Unwrap(info.voltage_v), RZero)
    THEN LET voltage == Unwrap(info.voltage_v)
             current == Unwrap(info.current_ma)
             sub == U8Sub(100, info.capacity_percent)
             remaining_capacity == RDiv(R(sub.v), R(100))
             estimated_full_capacity ==
                 IF RGt(voltage, R(12)) THEN R(4)
                 ELSE IF RGt(voltage, R(7)) THEN R(3) ELSE R(2)
             estimated_energy_needed ==
                 RMul(RMul(voltage, estimated_full_capacity), remaining_capacity)
             power == RMul(voltage, RDiv(R(current), R(1000)))
             charge_progress == RDiv(R(info.capacity_percent), R(100))
             efficiency == IF RGt(charge_progress, RNorm(8, 10))
                           THEN RNorm(7, 10) ELSE RNorm(9, 10)
             effective_power == RMul(power, efficiency)
         IN  [overflow |-> sub.overflow,
              minutes |-> IF RGt(effective_power, MIN_POWER_THRESHOLD)
                          THEN Some(MinutesOf(estimated_energy_needed, effective_power))
                          ELSE None]
    ELSE [overflow |-> FALSE, minutes |-> None]

NoOverflow(minutes) == [overflow |-> FALSE, minutes |-> minutes]

\* the positivity test written as a test against zero
PowerIsPositiveNonZero(weighted) == ~RIsZero(weighted)

\* `weighted_power > 0.0`
PowerIsPositive(weighted) == RGt(weighted, RZero)

\* the threshold test dropped: every power counts as large enough
BelowPowerThresholdDropped(instantaneous_power) == RLt(RAbs(instantaneous_power), RZero)

\* `instantaneous_power.abs() < MIN_POWER_THRESHOLD`
BelowPowerThreshold(instantaneous_power) ==
    RLt(RAbs(instantaneous_power), MIN_POWER_THRESHOLD)

\* the sample count never tested
InsufficientSamplesDropped(n) == n < 0

\* `self.power_history.len() < MIN_SAMPLES_FOR_ESTIMATE`
InsufficientSamples(n) == n < MIN_SAMPLES_FOR_ESTIMATE

\* The result is [overflow, minutes].  minutes is the Option<u32> the call
\* returns; overflow tells that the u8 subtraction overflowed on the way, so
\* that the call panics instead in a build with overflow checks.
calculate_time_remaining(info, smoothed, window, n) ==
    LET rolling == get_rolling_average_power(window, smoothed)
    IN  IF IsNone(info.power_now_w) \/ IsNone(smoothed) \/ IsNone(rolling)
        THEN NoOverflow(None)
        ELSE IF BelowPowerThreshold(Unwrap(info.power_now_w))
        THEN NoOverflow(None)
        ELSE IF InsufficientSamples(n)
        THEN NoOverflow(None)
        ELSE LET weighted == weighted_power(Unwrap(info.power_now_w),
                                            Unwrap(smoothed), Unwrap(rolling), n)
             IN  IF info.status = "Discharging"
                 THEN IF IsSome(info.energy_now_wh)
                      THEN IF PowerIsPositive(weighted)
                           THEN NoOverflow(Some(MinutesOf(Unwrap(info.energy_now_wh), weighted)))
                           ELSE NoOverflow(None)
                      ELSE NoOverflow(DischargingFallback(info))
                 ELSE IF info.status = "Charging"
                 THEN IF IsSome(info.energy_now_wh) /\ IsSome(info.energy_full_wh)
                      THEN IF PowerIsPositive(weighted)
                           THEN NoOverflow(Some(ChargingMinutes(Unwrap(info.energy_now_wh),
                                                             Unwrap(info.energy_full_wh),
                                                             weighted)))
                           ELSE NoOverflow(None)
                      ELSE ChargingFallback(info)
                 ELSE NoOverflow(None)

(***************************************************************************)
(* Binary64 arithmetic, as get_power_trend performs it on the stored power *)
(* samples.  A value is a sign and a magnitude; the magnitude is a natural *)
(* number of units of 2^-84, held in four limbs of 28 bits, the least      *)
(* significant first.  Every sample, difference and sum of the trend is a  *)
(* multiple of 2^-84 below 2^28, so the exact result of an operation fits  *)
(* the four limbs and Round53 rounds it to 53 significant bits, to nearest *)
(* and ties to even.                                                       *)
(***************************************************************************)
Limb == 2^28

BigZero == << 0, 0, 0, 0 >>

BigAdd(a, b) ==
    LET s1 == a[1] + b[1]
        s2 == a[2] + b[2] + s1 \div Limb
        s3 == a[3] + b[3] + s2 \div Limb
        s4 == a[4] + b[4] + s3 \div Limb
    IN  << s1 % Limb, s2 % Limb, s3 % Limb, s4 % Limb >>

\* a - b for a >= b
BigSub(a, b) ==
    LET d1 == a[1] - b[1]
        d2 == a[2] - b[2] - (IF d1 < 0 THEN 1 ELSE 0)
        d3 == a[3] - b[3] - (IF d2 < 0 THEN 1 ELSE 0)
        d4 == a[4] - b[4] - (IF d3 < 0 THEN 1 ELSE 0)
    IN  << (d1 + Limb) % Limb, (d2 + Limb) % Limb, (d3 + Limb) % Limb, d4 >>

BigLt(a, b) ==
    \/ a[4] < b[4]
    \/ a[4] = b[4] /\ a[3] < b[3]
    \/ a[4] = b[4] /\ a[3] = b[3] /\ a[2] < b[2]
    \/ a[4] = b[4] /\ a[3] = b[3] /\ a[2] = b[2] /\ a[1] < b[1]

\* 2^k, the low k bits of a, and bit k of a
BigPow2(k) ==
    LET at == k \div 28 + 1
    IN  [i \in 1..4 |-> IF i = at THEN 2^(k % 28) ELSE 0]
BigLow(a, k) ==
    LET at == k \div 28 + 1
    IN  [i \in 1..4 |-> IF i < at THEN a[i]
                        ELSE IF i = at THEN a[i] % 2^(k % 28) ELSE 0]
BigBit(a, k) == (a[k \div 28 + 1] \div 2^(k % 28)) % 2

\* the number of significant bits
BitLength(limb) ==
    IF limb = 0 THEN 0 ELSE CHOOSE k \in 1..28 : 2^(k - 1) <= limb /\ limb < 2^k
BigBitLength(a) ==
    IF a[4] > 0 THEN 84 + BitLength(a[4])
    ELSE IF a[3] > 0 THEN 56 + BitLength(a[3])
    ELSE IF a[2] > 0 THEN 28 + BitLength(a[2])
    ELSE BitLength(a[1])

\* mag, followed by more non-zero digits if sticky, rounded to 53
\* significant bits
Round53(mag, sticky) ==
    LET drop == BigBitLength(mag) - 53
    IN  IF drop <= 0 THEN mag
        ELSE LET low == BigLow(mag, drop)
                 half == BigPow2(drop - 1)
                 kept == BigSub(mag, low)
                 up == \/ BigLt(half, low)
                       \/ low = half /\ (sticky \/ BigBit(mag, drop) = 1)
             IN  IF up THEN BigAdd(kept, BigPow2(drop)) ELSE kept

F64Zero == [neg |-> FALSE, mag |-> BigZero]
F64Half == [neg |-> FALSE, mag |-> BigPow2(83)]
F64Neg(x) == [neg |-> ~x.neg, mag |-> x.mag]

\* x + y and x - y
F64Add(x, y) ==
    IF x.neg = y.neg
    THEN [neg |-> x.neg, mag |-> Round53(BigAdd(x.mag, y.mag), FALSE)]
    ELSE IF x.mag = y.mag THEN F64Zero
    ELSE IF BigLt(x.mag, y.mag)
    THEN [neg |-> y.neg, mag |-> Round53(BigSub(y.mag, x.mag), FALSE)]
    ELSE [neg |-> x.neg, mag |-> Round53(BigSub(x.mag, y.mag), FALSE)]
F64Sub(x, y) == F64Add(x, F64Neg(y))

\* x / 4.0: the exponent drops by two, the two lowest bits of a sum of
\* differences being zero
F64Quarter(x) ==
    [neg |-> x.neg,
     mag |-> << x.mag[1] \div 4 + (x.mag[2] % 4) * 2^26,
                x.mag[2] \div 4 + (x.mag[3] % 4) * 2^26,
                x.mag[3] \div 4 + (x.mag[4] % 4) * 2^26,
                x.mag[4] \div 4 >>]

\* x < y
F64Lt(x, y) ==
    IF x.neg /\ ~y.neg THEN x.mag /= BigZero \/ y.mag /= BigZero
    ELSE IF ~x.neg /\ y.neg THEN FALSE
    ELSE IF x.neg THEN BigLt(y.mag, x.mag)
    ELSE BigLt(x.mag, y.mag)

\* The binary64 value of the quotient a.n / a.d: 28 bits of the quotient
\* at a time by long division, seven bits a step, then the rounding.  The
\* divisors are those of microwatts over 1000000, below 2^24.
DivStep(rem, d) == [q |-> (rem * 128) \div d, rem |-> (rem * 128) % d]
DivLimb(rem, d) ==
    LET s1 == DivStep(rem, d)
        s2 == DivStep(s1.rem, d)
        s3 == DivStep(s2.rem, d)
        s4 == DivStep(s3.rem, d)
    IN  [q |-> ((s1.q * 128 + s2.q) * 128 + s3.q) * 128 + s4.q, rem |-> s4.rem]
F64Of(a) ==
    LET n == AbsInt(a.n)
        f3 == DivLimb(n % a.d, a.d)
        f2 == DivLimb(f3.rem, a.d)
        f1 == DivLimb(f2.rem, a.d)
    IN  [neg |-> a.n < 0,
         mag |-> Round53(<< f1.q, f2.q, f3.q, n \div a.d >>, f1.rem /= 0)]

(***************************************************************************)
(* BatteryMonitor::get_power_trend: the mean of the four differences       *)
(* between successive samples of the last five, newest first, computed in  *)
(* binary64 as the code computes it.                                       *)
(***************************************************************************)
\* the sum of the four differences left undivided
AvgChangeUndivided(p1, p2, p3, p4, p5) ==
    LET w1 == F64Of(p1)
        w2 == F64Of(p2)
        w3 == F64Of(p3)
        w4 == F64Of(p4)
        w5 == F64Of(p5)
        c1 == F64Sub(w1, w2)
        c2 == F64Sub(w2, w3)
        c3 == F64Sub(w3, w4)
        c4 == F64Sub(w4, w5)
    IN  F64Add(F64Add(F64Add(F64Add(F64Zero, c1), c2), c3), c4)

\* avg_change of the five samples, newest first
AvgChange(p1, p2, p3, p4, p5) ==
    LET w1 == F64Of(p1)
        w2 == F64Of(p2)
        w3 == F64Of(p3)
        w4 == F64Of(p4)
        w5 == F64Of(p5)
        c1 == F64Sub(w1, w2)
        c2 == F64Sub(w2, w3)
        c3 == F64Sub(w3, w4)
        c4 == F64Sub(w4, w5)
        sum == F64Add(F64Add(F64Add(F64Add(F64Zero, c1), c2), c3), c4)
    IN  F64Quarter(sum)

get_power_trend_inclusive(history) ==
    IF Len(history) < 5 THEN "stable"
    ELSE LET n == Len(history)
             avg_change == AvgChange(history[n].power_w, history[n - 1].power_w,
                                     history[n - 2].power_w, history[n - 3].power_w,
                                     history[n - 4].power_w)
         IN  IF ~F64Lt(avg_change, F64Half) THEN "increasing"
             ELSE IF ~F64Lt(F64Neg(F64Half), avg_change) THEN "decreasing"
             ELSE "stable"

get_power_trend(history) ==
    IF Len(history) < 5 THEN "stable"
    ELSE LET n == Len(history)
             avg_change == AvgChange(history[n].power_w, history[n - 1].power_w,
                                     history[n - 2].power_w, history[n - 3].power_w,
                                     history[n - 4].power_w)
         IN  IF F64Lt(F64Half, avg_change) THEN "increasing"
             ELSE IF F64Lt(avg_change, F64Neg(F64Half)) THEN "decreasing"
             ELSE "stable"

(***************************************************************************)
(* The health percentage computed at the end of get_battery_info.          *)
(***************************************************************************)
HealthPercent(in, energy_full_wh) ==
    LET design == MapDiv(read_as_f64(in.energy_full_design), 1000000)
        charge_full == read_as_f64(in.charge_full)
        charge_design == read_as_f64(in.charge_full_design)
    IN  IF IsSome(energy_full_wh) /\ IsSome(design) /\ RGt(Unwrap(design), RZero)
        THEN RMul(RDiv(Unwrap(energy_full_wh), Unwrap(design)), R(100))
        ELSE IF IsSome(charge_full) /\ IsSome(charge_design)
                /\ RGt(Unwrap(charge_design), RZero)
        THEN RMul(RDiv(Unwrap(charge_full), Unwrap(charge_design)), R(100))
        ELSE RZero

(***************************************************************************)
(* Strings: the operations of str the sensor discovery uses.               *)
(***************************************************************************)
UpperChars == "ABCDEFGHIJKLMNOPQRSTUVWXYZ"
LowerChars == "abcdefghijklmnopqrstuvwxyz"
CharAt(str, i) == SubSeq(str, i, i)
LowerChar(c) ==
    IF \E i \in 1..Len(UpperChars) : CharAt(UpperChars, i) = c
    THEN CharAt(LowerChars, CHOOSE i \in 1..Len(UpperChars) : CharAt(UpperChars, i) = c)
    ELSE c
RECURSIVE to_lowercase(_)
to_lowercase(str) ==
    IF Len(str) = 0 THEN ""
    ELSE LowerChar(CharAt(str, 1)) \o to_lowercase(SubSeq(str, 2, Len(str)))
contains(str, pat) ==
    \E i \in 1..(Len(str) - Len(pat) + 1) : SubSeq(str, i, i + Len(pat) - 1) = pat
starts_with(str, pre) ==
    Len(str) >= Len(pre) /\ SubSeq(str, 1, Len(pre)) = pre

(***************************************************************************)
(* TemperatureMonitor: validation, normalisation and the family/label      *)
(* acceptance test.                                                        *)
(***************************************************************************)
\* the band test without its upper bound
is_valid_temperature_lower_only(temp) == RGe(temp, MIN_VALID_TEMP)

\* the band test without its lower bound
is_valid_temperature_upper_only(temp) == RLe(temp, MAX_VALID_TEMP)

is_valid_temperature(temp) == RGe(temp, MIN_VALID_TEMP) /\ RLe(temp, MAX_VALID_TEMP)

\* the decidegree tier starting at 20 instead of 200
normalize_battery_temperature_low_tier(raw_value) ==
    IF RGt(raw_value, R(1000)) THEN RDiv(raw_value, R(1000))
    ELSE IF RGt(raw_value, R(20)) THEN RDiv(raw_value, R(10))
    ELSE raw_value

normalize_battery_temperature(raw_value) ==
    IF RGt(raw_value, R(1000)) THEN RDiv(raw_value, R(1000))
    ELSE IF RGt(raw_value, R(200)) THEN RDiv(raw_value, R(10))
    ELSE raw_value

read_temperature_from_path(file) == read_as_f64(file)

\* the acceptance test matching the label as written, without lower-casing
is_cpu_temp_sensor_case_sensitive(device_name, label) ==
    IF device_name = "coretemp"
    THEN IF IsSome(label) THEN contains(Unwrap(label), "package") ELSE TRUE
    ELSE IF device_name = "k10temp"
    THEN IF IsSome(label)
         THEN contains(Unwrap(label), "tctl") \/ contains(Unwrap(label), "tdie")
         ELSE TRUE
    ELSE IF device_name = "zenpower"
    THEN IF IsSome(label)
         THEN contains(Unwrap(label), "tctl") \/ contains(Unwrap(label), "tdie")
              \/ contains(Unwrap(label), "die")
         ELSE TRUE
    ELSE IF device_name = "amdgpu"
    THEN IF IsSome(label) THEN contains(Unwrap(label), "edge") ELSE FALSE
    ELSE FALSE

is_cpu_temp_sensor(device_name, label) ==
    IF device_name = "coretemp"
    THEN IF IsSome(label)
         THEN LET label_lower == to_lowercase(Unwrap(label))
              IN  contains(label_lower, "package") \/ label_lower = "package id 0"
                  \/ contains(label_lower, "package id")
         ELSE TRUE
    ELSE IF device_name = "k10temp"
    THEN IF IsSome(label)
         THEN LET label_lower == to_lowercase(Unwrap(label))
              IN  contains(label_lower, "tctl") \/ contains(label_lower, "tdie")
                  \/ label_lower = "tctl" \/ label_lower = "tdie"
         ELSE TRUE
    ELSE IF device_name = "zenpower"
    THEN IF IsSome(label)
         THEN LET label_lower == to_lowercase(Unwrap(label))
              IN  contains(label_lower, "tctl") \/ contains(label_lower, "tdie")
                  \/ contains(label_lower, "die")
         ELSE TRUE
    ELSE IF device_name = "amdgpu"
    THEN IF IsSome(label) THEN contains(to_lowercase(Unwrap(label)), "edge")
         ELSE FALSE
    ELSE FALSE

(***************************************************************************)
(* Discovery.  A host is what the file system shows at construction, its   *)
(* directory listings in the order the code sorts them (by file name):     *)
(*   hwmon:  [dir, name (Option), channels: [num, label (Option), input]]  *)
(*   power_supply: [dir, has_temp, temp]                                   *)
(*   thermal: [dir, type (Option), has_temp, temp]                         *)
(***************************************************************************)
RECURSIVE ScanChannels(_, _, _)
ScanChannels(dir, device_name, channels) ==
    IF channels = << >> THEN << >>
    ELSE LET ch == Head(channels)
             sensor == [sensor_type |-> device_name,
                        path |-> "/sys/class/hwmon/" \o dir \o "/temp" \o ch.num \o "_input",
                        label |-> ch.label,
                        name |-> device_name \o " " \o UnwrapOr(ch.label, "temp" \o ch.num)]
             raw_temp == read_temperature_from_path(ch.input)
             keep == is_cpu_temp_sensor(device_name, ch.label)
                     /\ IsSome(raw_temp)
                     /\ is_valid_temperature(RDiv(Unwrap(raw_temp), R(1000)))
         IN  (IF keep THEN << sensor >> ELSE << >>)
             \o ScanChannels(dir, device_name, Tail(channels))

scan_hwmon_device(group) ==
    IF IsNone(group.name) THEN << >>
    ELSE LET device_name == Unwrap(group.name)
         IN  IF device_name = "acpitz" \/ contains(device_name, "virtual")
             THEN << >>
             ELSE ScanChannels(group.dir, device_name, group.channels)

RECURSIVE ScanHwmonDirs(_)
ScanHwmonDirs(groups) ==
    IF groups = << >> THEN << >>
    ELSE (IF starts_with(Head(groups).dir, "hwmon")
          THEN scan_hwmon_device(Head(groups)) ELSE << >>)
         \o ScanHwmonDirs(Tail(groups))

SensorPriority(sensor_type) ==
    CASE sensor_type = "coretemp" -> 1
      [] sensor_type = "k10temp" -> 2
      [] sensor_type = "zenpower" -> 3
      [] sensor_type = "amdgpu" -> 4
      [] OTHER -> 9

\* the catalog left in discovery order
SortByPriorityOmitted(sensors) == sensors

\* Vec::sort_by is stable: the sensors of each priority, in ascending
\* priority, each class in its discovery order
SortByPriority(sensors) ==
    LET Class(p) == LET Has(x) == SensorPriority(x.sensor_type) = p
                    IN  SelectSeq(sensors, Has)
    IN  Class(1) \o Class(2) \o Class(3) \o Class(4) \o Class(9)

discover_cpu_sensors(host) == SortByPriority(ScanHwmonDirs(host.hwmon))

RECURSIVE ScanPowerSupply(_)
ScanPowerSupply(entries) ==
    IF entries = << >> THEN << >>
    ELSE LET e == Head(entries)
             sensor == [sensor_type |-> "battery",
                        path |-> "/sys/class/power_supply/" \o e.dir \o "/temp",
                        label |-> Some(e.dir),
                        name |-> "Battery " \o e.dir]
             raw_temp == read_temperature_from_path(e.temp)
             keep == (starts_with(e.dir, "BAT") \/ starts_with(e.dir, "battery"))
                     /\ e.has_temp
                     /\ IsSome(raw_temp)
                     /\ is_valid_temperature(normalize_battery_temperature(Unwrap(raw_temp)))
         IN  (IF keep THEN << sensor >> ELSE << >>) \o ScanPowerSupply(Tail(entries))

RECURSIVE ScanThermal(_)
ScanThermal(entries) ==
    IF entries = << >> THEN << >>
    ELSE LET e == Head(entries)
             sensor == [sensor_type |-> "thermal_zone",
                        path |-> "/sys/class/thermal/" \o e.dir \o "/temp",
                        label |-> Some("battery"),
                        name |-> "Battery Thermal " \o e.dir]
             raw_temp == read_temperature_from_path(e.temp)
             keep == starts_with(e.dir, "thermal_zone")
                     /\ e.type = Some("battery")
                     /\ e.has_temp
                     /\ IsSome(raw_temp)
                     /\ is_valid_temperature(normalize_battery_temperature(Unwrap(raw_temp)))
         IN  (IF keep THEN << sensor >> ELSE << >>) \o ScanThermal(Tail(entries))

discover_battery_sensors(host) ==
    ScanPowerSupply(host.power_supply) \o ScanThermal(host.thermal)

(***************************************************************************)
(* Queries.  temps maps a sensor path to the content of its file in this   *)
(* cycle; a path it does not name reads as missing.                        *)
(***************************************************************************)
FileAt(temps, path) == IF path \in DOMAIN temps THEN temps[path] ELSE NoFile

RECURSIVE get_cpu_temp(_, _, _)
get_cpu_temp(sensors, temps, timestamp) ==
    IF sensors = << >> THEN None
    ELSE LET sensor == Head(sensors)
             raw_temp == read_temperature_from_path(FileAt(temps, sensor.path))
         IN  IF IsSome(raw_temp)
                /\ is_valid_temperature(RDiv(Unwrap(raw_temp), R(1000)))
             THEN Some([raw_value |-> RDiv(Unwrap(raw_temp), R(1000)),
                        smoothed_value |-> RDiv(Unwrap(raw_temp), R(1000)),
                        sensor_info |-> sensor,
                        timestamp |-> timestamp])
             ELSE get_cpu_temp(Tail(sensors), temps, timestamp)

\* the query that gives up when its first sensor has no valid read
get_battery_temp_first_only(sensors, temps, timestamp) ==
    IF sensors = << >> THEN None
    ELSE LET sensor == Head(sensors)
             raw_temp == read_temperature_from_path(FileAt(temps, sensor.path))
         IN  IF IsSome(raw_temp)
                /\ is_valid_temperature(normalize_battery_temperature(Unwrap(raw_temp)))
             THEN Some([raw_value |-> normalize_battery_temperature(Unwrap(raw_temp)),
                        smoothed_value |-> normalize_battery_temperature(Unwrap(raw_temp)),
                        sensor_info |-> sensor,
                        timestamp |-> timestamp])
             ELSE None

RECURSIVE get_battery_temp(_, _, _)
get_battery_temp(sensors, temps, timestamp) ==
    IF sensors = << >> THEN None
    ELSE LET sensor == Head(sensors)
             raw_temp == read_temperature_from_path(FileAt(temps, sensor.path))
         IN  IF IsSome(raw_temp)
                /\ is_valid_temperature(normalize_battery_temperature(Unwrap(raw_temp)))
             THEN Some([raw_value |-> normalize_battery_temperature(Unwrap(raw_temp)),
                        smoothed_value |-> normalize_battery_temperature(Unwrap(raw_temp)),
                        sensor_info |-> sensor,
                        timestamp |-> timestamp])
             ELSE get_battery_temp(Tail(sensors), temps, timestamp)

\* the last-known reading following every query, a miss clearing it
LastKnownAfterCleared(last, reading) == reading

\* last_cpu_temp / last_battery_temp after a query: replaced on a hit only
LastKnownAfter(last, reading) == IF IsSome(reading) THEN reading ELSE last

(***************************************************************************)
(* State.  The fields of BatteryMonitor and of its TemperatureMonitor,     *)
(* the clock, and what the last call of get_battery_info gave back.        *)
(* readings_log and power_log are history variables: every entry ever      *)
(* pushed to readings_history and to power_history, in push order.         *)
(* sysfs is the file system the monitor reads: host, the directories as    *)
(* the constructor found them, and temps and power_now, the temperature   *)
(* files and the power_now attribute as the last cycle found them (none    *)
(* before the first cycle).  main_loop is the frame of main: the --once    *)
(* flag, the start time, the number of updates shown and the position in   *)
(* the monitoring loop.                                                    *)
(***************************************************************************)
VARIABLES readings_history, power_history, smoothed_power, rolling_power_window,
          last_update, cpu_sensors, battery_sensors, last_cpu_temp,
          last_battery_temp, now, outcome, info, readings_log, power_log, sysfs,
          main_loop

vars == << readings_history, power_history, smoothed_power, rolling_power_window,
           last_update, cpu_sensors, battery_sensors, last_cpu_temp,
           last_battery_temp, now, outcome, info, readings_log, power_log, sysfs,
           main_loop >>

max_history == MAX_HISTORY_SIZE

\* the clock at construction, in seconds since the epoch
StartTime == 1000

\* the append without the eviction
PushUnbounded(history, entry) == Append(history, entry)

\* the append that gives up the newest entry of a full history
PushKeepingOldest(history, entry) ==
    LET pushed == Append(history, entry)
    IN  IF Len(pushed) > max_history THEN SubSeq(pushed, 1, max_history) ELSE pushed

\* VecDeque::push_back followed by pop_front once the length exceeds max_history
PushBounded(history, entry) ==
    LET pushed == Append(history, entry)
    IN  IF Len(pushed) > max_history THEN Tail(pushed) ELSE pushed

\* the BatteryInfo of a cycle that has not happened
NoInfo == [status |-> "", capacity_percent |-> 0, health_percent |-> RZero,
           cycles |-> None, temperature_c |-> None, voltage_v |-> None,
           current_ma |-> None, power_w |-> None, smoothed_power_w |-> None,
           manufacturer |-> "", model |-> "", technology |-> "",
           time_remaining_minutes |-> None, energy_now_wh |-> None,
           energy_full_wh |-> None, power_trend |-> "", cpu_temperature_c |-> None]

(***************************************************************************)
(* BatteryMonitor::new, TemperatureMonitor::new on a host.                 *)
(***************************************************************************)
InitRun(host, run_once) ==
    /\ readings_history = << >>
    /\ power_history = << >>
    /\ smoothed_power = None
    /\ rolling_power_window = << >>
    /\ last_update = 0
    /\ cpu_sensors = discover_cpu_sensors(host)
    /\ battery_sensors = discover_battery_sensors(host)
    /\ last_cpu_temp = None
    /\ last_battery_temp = None
    /\ now = StartTime
    /\ outcome = "init"
    /\ info = NoInfo
    /\ readings_log = << >>
    /\ power_log = << >>
    /\ sysfs = [host |-> host, temps |-> << >>, power_now |-> NoFile]
    /\ main_loop = [run_once |-> run_once, start_time |-> StartTime,
                    update_count |-> 0, pc |-> "poll"]

\* the monitor started without --once
InitOn(host) == InitRun(host, FALSE)

(***************************************************************************)
(* BatteryMonitor::get_battery_info with the battery directory present.    *)
(* in holds the content of every attribute the cycle reads.  Where the     *)
(* estimate overflows its u8 subtraction the cycle either panics or goes   *)
(* on with the wrapped value, as the build decides.  The cycle ends with   *)
(* the driving loop's sleep of UPDATE_INTERVAL_SECS.                       *)
(***************************************************************************)
get_battery_info(in) ==
    LET timestamp == now
        status == UnwrapOr(in.status, "Unknown")
        capacity == UnwrapOr(read_as_u8(in.capacity), 0)
        voltage_v == MapDiv(read_as_f64(in.voltage_now), 1000000)
        current == read_as_i32(in.current_now)
        current_ma == IF IsSome(current) THEN Some(RustDiv(Unwrap(current), 1000)) ELSE None
        cycles == read_as_u32(in.cycle_count)
        energy_now_wh == read_energy_now(in)
        energy_full_wh == read_energy_full(in)
        power_w == read_power(in, voltage_v, current_ma)
        cpu_temp_reading == get_cpu_temp(cpu_sensors, in.temps, timestamp)
        battery_temp_reading == get_battery_temp(battery_sensors, in.temps, timestamp)
        cpu_temperature_c ==
            IF IsSome(cpu_temp_reading) THEN Some(Unwrap(cpu_temp_reading).raw_value) ELSE None
        battery_temperature_c ==
            IF IsSome(battery_temp_reading) THEN Some(Unwrap(battery_temp_reading).raw_value)
            ELSE None
        new_smoothed == SmoothedIfPower(smoothed_power, power_w)
        new_window == IF IsSome(power_w) THEN WindowAfter(rolling_power_window, Unwrap(power_w))
                      ELSE rolling_power_window
        records_sample == IsSome(power_w) /\ IsSome(energy_now_wh)
        sample == [timestamp |-> timestamp, power_w |-> Unwrap(power_w),
                   energy_wh |-> Unwrap(energy_now_wh)]
        new_power_history == IF records_sample THEN PushBounded(power_history, sample)
                             ELSE power_history
        reading == [timestamp |-> timestamp, capacity_percent |-> capacity,
                    energy_now_wh |-> energy_now_wh, energy_full_wh |-> energy_full_wh,
                    power_now_w |-> power_w, voltage_v |-> voltage_v,
                    current_ma |-> current_ma, status |-> status,
                    temperature_c |-> battery_temperature_c]
        remaining == calculate_time_remaining(reading, new_smoothed, new_window,
                                              Len(new_power_history))
        returned ==
            [status |-> status, capacity_percent |-> capacity,
             health_percent |-> HealthPercent(in, energy_full_wh),
             cycles |-> cycles,
             temperature_c |-> battery_temperature_c,
             voltage_v |-> voltage_v, current_ma |-> current_ma,
             power_w |-> power_w, smoothed_power_w |-> new_smoothed,
             manufacturer |-> UnwrapOr(in.manufacturer, "Unknown"),
             model |-> UnwrapOr(in.model_name, "Unknown"),
             technology |-> UnwrapOr(in.technology, "Unknown"),
             time_remaining_minutes |-> remaining.minutes,
             energy_now_wh |-> energy_now_wh,
             energy_full_wh |-> energy_full_wh,
             power_trend |-> get_power_trend(new_power_history),
             cpu_temperature_c |-> cpu_temperature_c]
    IN  /\ outcome \in {"init", "info"}
        /\ last_cpu_temp' = LastKnownAfter(last_cpu_temp, cpu_temp_reading)
        /\ last_battery_temp' = LastKnownAfter(last_battery_temp, battery_temp_reading)
        /\ smoothed_power' = new_smoothed
        /\ rolling_power_window' = new_window
        /\ power_history' = new_power_history
        /\ power_log' = IF records_sample THEN Append(power_log, sample) ELSE power_log
        /\ last_update' = timestamp
        /\ \/ /\ remaining.overflow
              /\ outcome' = "panic"
              /\ UNCHANGED << readings_history, readings_log, info >>
           \/ /\ outcome' = "info"
              /\ readings_history' = PushBounded(readings_history, reading)
              /\ readings_log' = Append(readings_log, reading)
              /\ info' = returned
        /\ now' = now + UPDATE_INTERVAL_SECS
        /\ sysfs' = [sysfs EXCEPT !.temps = in.temps, !.power_now = in.power_now]
        /\ UNCHANGED << cpu_sensors, battery_sensors >>

(***************************************************************************)
(* get_battery_info with the battery directory gone: None, and the caller  *)
(* (main) leaves the process.                                              *)
(***************************************************************************)
\* the early return placed after the timestamp is stored
DeviceMissingStamped ==
    /\ outcome \in {"init", "info"}
    /\ outcome' = "absent"
    /\ last_update' = now
    /\ UNCHANGED << readings_history, power_history, smoothed_power,
                    rolling_power_window, cpu_sensors, battery_sensors,
                    last_cpu_temp, last_battery_temp, now, info, readings_log,
                    power_log, sysfs >>

DeviceMissing ==
    /\ outcome \in {"init", "info"}
    /\ outcome' = "absent"
    /\ UNCHANGED << readings_history, power_history, smoothed_power,
                    rolling_power_window, last_update, cpu_sensors, battery_sensors,
                    last_cpu_temp, last_battery_temp, now, info, readings_log,
                    power_log, sysfs >>

(***************************************************************************)
(* The host the monitor is constructed on, and the attribute contents a    *)
(* cycle can meet.                                                         *)
(***************************************************************************)
Host ==
    [hwmon |-> <<
        [dir |-> "hwmon0", name |-> Some("acpitz"),
         channels |-> << [num |-> "1", label |-> None, input |-> Num(27800)] >>],
        [dir |-> "hwmon1", name |-> Some("k10temp"),
         channels |-> << [num |-> "1", label |-> Some("Tctl"), input |-> Num(45000)] >>],
        [dir |-> "hwmon2", name |-> Some("coretemp"),
         channels |-> << [num |-> "1", label |-> Some("Package id 0"), input |-> Num(50000)],
                         [num |-> "2", label |-> Some("Core 0"), input |-> Num(48000)] >>] >>,
     power_supply |-> <<
        [dir |-> "AC", has_temp |-> FALSE, temp |-> NoFile],
        [dir |-> "BAT0", has_temp |-> TRUE, temp |-> Num(305)] >>,
     thermal |-> <<
        [dir |-> "thermal_zone0", type |-> Some("x86_pkg_temp"), has_temp |-> TRUE,
         temp |-> Num(50000)],
        [dir |-> "thermal_zone1", type |-> Some("battery"), has_temp |-> TRUE,
         temp |-> Num(31000)] >>]

CoretempPath == "/sys/class/hwmon/hwmon2/temp1_input"
K10tempPath == "/sys/class/hwmon/hwmon1/temp1_input"
BatTempPath == "/sys/class/power_supply/BAT0/temp"
ZoneTempPath == "/sys/class/thermal/thermal_zone1/temp"

\* every sensor reads a valid temperature
TempsValid == (CoretempPath :> Num(52000)) @@ (K10tempPath :> Num(47000))
              @@ (BatTempPath :> Num(310)) @@ (ZoneTempPath :> Num(32000))
\* the first CPU sensor is out of band, the battery sensors are unreadable
TempsDegraded == (CoretempPath :> Num(120000)) @@ (K10tempPath :> Num(47000))
                 @@ (BatTempPath :> BadFile)

\* Discharging at 10 W with 30 Wh of 60 Wh left
Steady ==
    [status |-> Some("Discharging"), capacity |-> Num(50),
     voltage_now |-> Num(12000000), current_now |-> Num(-1000000),
     power_now |-> Num(10000000),
     energy_now |-> Num(30000000), energy_full |-> Num(60000000),
     charge_now |-> NoFile, charge_full |-> NoFile,
     energy_full_design |-> Num(80000000), charge_full_design |-> NoFile,
     cycle_count |-> Num(120),
     manufacturer |-> Some("ACME"), model_name |-> Some("B1"),
     technology |-> Some("Li-ion"), temps |-> TempsValid]

NegativePower == [Steady EXCEPT !.power_now = Num(-5000000)]
NegativeNoEnergy == [Steady EXCEPT !.power_now = Num(-5000000), !.energy_now = NoFile]
LowPower == [Steady EXCEPT !.power_now = Num(40000)]
NoPower == [Steady EXCEPT !.power_now = NoFile, !.voltage_now = BadFile]
DerivedPower == [Steady EXCEPT !.power_now = NoFile]
FullIdle == [Steady EXCEPT !.status = Some("Full"), !.capacity = Num(100),
                           !.energy_now = Num(60000000)]
Bare == [Steady EXCEPT !.status = None, !.capacity = BadFile, !.cycle_count = NoFile,
                       !.manufacturer = None, !.energy_full = NoFile,
                       !.energy_full_design = NoFile, !.temps = TempsDegraded]

Charge54 == [Steady EXCEPT !.status = Some("Charging"), !.capacity = Num(90),
                           !.current_now = Num(1000000), !.power_now = Num(20000000),
                           !.energy_now = Num(54000000)]
Charge58 == [Charge54 EXCEPT !.energy_now = Num(58000000), !.capacity = Num(96)]
Charge24 == [Charge54 EXCEPT !.energy_now = Num(24000000), !.capacity = Num(40)]
ChargeFull == [Charge54 EXCEPT !.energy_now = Num(60000000), !.capacity = Num(100)]
ChargeOver == [Charge54 EXCEPT !.energy_now = Num(78000000), !.capacity = Num(100)]
ChargeNoEnergy == [Charge54 EXCEPT !.energy_now = NoFile]
ChargeNoEnergy150 == [Charge54 EXCEPT !.energy_now = NoFile, !.capacity = Num(150)]
NotCharging == [Charge54 EXCEPT !.status = Some("Not charging")]

\* the cycles of a discharging battery, and one charging cycle
Inputs == {Steady, DerivedPower, NegativePower, NegativeNoEnergy, LowPower,
           NoPower, FullIdle, Bare, Charge54}

\* the cycles of a charging battery, and one discharging cycle
ChargeInputs == {Steady, Charge54, Charge58, Charge24, ChargeFull, ChargeOver,
                 ChargeNoEnergy, ChargeNoEnergy150, NotCharging}

(***************************************************************************)
(* Spec: the monitor constructed on the host and polled at most MaxPolls   *)
(* times, any cycle meeting any of Inputs.  SpecCharge: the same with      *)
(* ChargeInputs.                                                           *)
(***************************************************************************)
MaxPolls == 4

Init == InitOn(Host)

Poll == /\ Len(readings_log) < MaxPolls
        /\ \E in \in Inputs : get_battery_info(in)
        /\ UNCHANGED main_loop

Vanish == /\ Len(readings_log) < MaxPolls
          /\ DeviceMissing
          /\ UNCHANGED main_loop

Next == Poll \/ Vanish

Spec == Init /\ [][Next]_vars

PollCharge == /\ Len(readings_log) < MaxPolls
              /\ \E in \in ChargeInputs : get_battery_info(in)
              /\ UNCHANGED main_loop

NextCharge == PollCharge \/ Vanish

SpecCharge == Init /\ [][NextCharge]_vars

(***************************************************************************)
(* SpecHist: a long run, MaxHistPolls cycles, that fills the histories     *)
(* past their capacity.  The battery discharges steadily and every third   *)
(* cycle finds no power reading.                                           *)
(***************************************************************************)
MaxHistPolls == 456

ScriptedInput(k) == IF k % 3 = 2 THEN NoPower ELSE Steady

PollHist == /\ Len(readings_log) < MaxHistPolls
            /\ get_battery_info(ScriptedInput(Len(readings_log)))
            /\ UNCHANGED main_loop

VanishHist == /\ Len(readings_log) < MaxHistPolls
              /\ DeviceMissing
              /\ UNCHANGED main_loop

NextHist == PollHist \/ VanishHist

SpecHist == Init /\ [][NextHist]_vars

(***************************************************************************)
(* SpecLong: runs of MaxLongPolls cycles, long enough to fill the rolling  *)
(* window and to reach every tier of the blend.  A run is either an idle   *)
(* battery at full charge whose load ramps up (k W in cycle k) or down     *)
(* (14 - k W), one cycle finding no energy reading and one no power        *)
(* reading, or a discharging battery whose load jumps to 16 W in some of   *)
(* the cycles from the sixth on.                                           *)
(***************************************************************************)
MaxLongPolls == 12

RampUp(k) == [FullIdle EXCEPT !.power_now = Num(k * 1000000)]
RampDown(k) == [FullIdle EXCEPT !.power_now = Num((14 - k) * 1000000)]
RampNoEnergy(k) == [RampUp(k) EXCEPT !.energy_now = NoFile]
IdleNoPower == [FullIdle EXCEPT !.power_now = NoFile, !.voltage_now = BadFile]
Surge == [Steady EXCEPT !.power_now = Num(16000000)]

LongInputs(k) ==
    IF k = 1 THEN {RampUp(1), RampDown(1), Steady}
    ELSE IF readings_log[1].status = "Full"
    THEN {RampUp(k), RampDown(k)}
         \cup (IF k = 3 THEN {RampNoEnergy(k)} ELSE {})
         \cup (IF k = 6 THEN {IdleNoPower} ELSE {})
    ELSE IF k < 6 THEN {Steady} ELSE {Steady, Surge}

PollLong == /\ Len(readings_log) < MaxLongPolls
            /\ \E in \in LongInputs(Len(readings_log) + 1) : get_battery_info(in)
            /\ UNCHANGED main_loop

VanishLong == /\ Len(readings_log) < MaxLongPolls
              /\ DeviceMissing
              /\ UNCHANGED main_loop

NextLong == PollLong \/ VanishLong

SpecLong == Init /\ [][NextLong]_vars

(***************************************************************************)
(* SpecTemp: the monitor constructed on any of Hosts and polled at most    *)
(* MaxTempPolls times, the battery idle at full charge and the temperature *)
(* files of a cycle as any of TempScenarios has them.                      *)
(***************************************************************************)
\* an AMD host: two zenpower channels, a GPU, a k10temp whose only accepted
\* channel has an upper-case label, channels that cannot be read or read
\* out of band, a group without a readable name, a virtual one and acpitz
HostAmd ==
    [hwmon |-> <<
        [dir |-> "hwmon0", name |-> Some("nvme"),
         channels |-> << [num |-> "1", label |-> Some("Composite"), input |-> Num(38000)],
                         [num |-> "2", label |-> None, input |-> Num(38000)] >>],
        [dir |-> "hwmon1", name |-> Some("zenpower"),
         channels |-> << [num |-> "1", label |-> None, input |-> Num(41000)],
                         [num |-> "2", label |-> Some("Tdie"), input |-> Num(42000)],
                         [num |-> "3", label |-> Some("SVI2_C_Core"), input |-> Num(43000)],
                         [num |-> "4", label |-> Some("Tctl"), input |-> Num(5000)] >>],
        [dir |-> "hwmon2", name |-> Some("amdgpu"),
         channels |-> << [num |-> "1", label |-> Some("edge"), input |-> Num(40000)],
                         [num |-> "2", label |-> Some("junction"), input |-> Num(50000)],
                         [num |-> "3", label |-> None, input |-> Num(44000)] >>],
        [dir |-> "hwmon3", name |-> Some("k10temp"),
         channels |-> << [num |-> "1", label |-> Some("Tccd1"), input |-> Num(46000)],
                         [num |-> "2", label |-> Some("TDIE"), input |-> Num(47000)],
                         [num |-> "3", label |-> Some("Tctl"), input |-> BadFile] >>],
        [dir |-> "hwmon4", name |-> None,
         channels |-> << [num |-> "1", label |-> None, input |-> Num(40000)] >>],
        [dir |-> "hwmon5", name |-> Some("virtual_coretemp"),
         channels |-> << [num |-> "1", label |-> None, input |-> Num(40000)] >>],
        [dir |-> "hwmon6", name |-> Some("acpitz"),
         channels |-> << [num |-> "1", label |-> None, input |-> Num(27800)] >>] >>,
     power_supply |-> <<
        [dir |-> "BAT0", has_temp |-> FALSE, temp |-> NoFile],
        [dir |-> "BAT1", has_temp |-> TRUE, temp |-> Num(250000)],
        [dir |-> "hidpp_battery_0", has_temp |-> TRUE, temp |-> Num(300)] >>,
     thermal |-> <<
        [dir |-> "thermal_zone0", type |-> None, has_temp |-> TRUE, temp |-> Num(30000)],
        [dir |-> "thermal_zone1", type |-> Some("battery"), has_temp |-> TRUE,
         temp |-> Num(42)],
        [dir |-> "thermal_zone2", type |-> Some("battery"), has_temp |-> TRUE,
         temp |-> Num(5)] >>]

\* an Intel host without labels: two coretemp groups, nothing of the battery
HostIntel ==
    [hwmon |-> <<
        [dir |-> "hwmon1", name |-> Some("coretemp"),
         channels |-> << [num |-> "1", label |-> None, input |-> Num(110000)],
                         [num |-> "2", label |-> Some("PACKAGE ID 1"), input |-> Num(10000)] >>],
        [dir |-> "hwmon2", name |-> Some("coretemp"),
         channels |-> << [num |-> "1", label |-> Some("Package id 0"), input |-> Num(110001)],
                         [num |-> "2", label |-> None, input |-> NoFile] >>] >>,
     power_supply |-> << [dir |-> "BAT0", has_temp |-> TRUE, temp |-> BadFile] >>,
     thermal |-> << >>]

Hosts == {Host, HostAmd, HostIntel}

AltTempPath == "/sys/class/hwmon/hwmon1/temp2_input"

\* the second CPU channel just out of band, the first on the upper bound;
\* the battery attribute below the band, the battery zone on the lower bound
TempsOnBounds == (CoretempPath :> Num(110001)) @@ (K10tempPath :> Num(110000))
                 @@ (AltTempPath :> Num(10000))
                 @@ (BatTempPath :> Num(9)) @@ (ZoneTempPath :> Num(10))
\* no CPU channel readable in band; battery readings far out of band
TempsDark == (CoretempPath :> BadFile) @@ (K10tempPath :> Num(9999))
             @@ (BatTempPath :> Num(250000)) @@ (ZoneTempPath :> Num(5))
\* the battery attribute missing, its zone in millidegrees
TempsZoneOnly == (CoretempPath :> Num(10000)) @@ (AltTempPath :> Num(45000))
                 @@ (ZoneTempPath :> Num(25000))
\* the battery attribute in decidegrees, and in degrees
TempsDeci == (CoretempPath :> Num(60000)) @@ (K10tempPath :> NoFile)
             @@ (BatTempPath :> Num(350)) @@ (ZoneTempPath :> Num(1000))
TempsPlain == (CoretempPath :> NoFile) @@ (K10tempPath :> Num(61000))
              @@ (BatTempPath :> Num(42)) @@ (ZoneTempPath :> Num(200))

TempScenarios == {TempsValid, TempsDegraded, TempsOnBounds, TempsDark, TempsZoneOnly,
                  TempsDeci, TempsPlain}

MaxTempPolls == 3

InitTemp == \E host \in Hosts : InitOn(host)

PollTemp == /\ Len(readings_log) < MaxTempPolls
            /\ \E temps \in TempScenarios : get_battery_info([FullIdle EXCEPT !.temps = temps])
            /\ UNCHANGED main_loop

VanishTemp == /\ Len(readings_log) < MaxTempPolls
              /\ DeviceMissing
              /\ UNCHANGED main_loop

NextTemp == PollTemp \/ VanishTemp

SpecTemp == InitTemp /\ [][NextTemp]_vars

(***************************************************************************)
(* SpecMain: main and its monitoring loop, started with or without --once  *)
(* and not in JSON mode.  One pass of the loop polls the battery, leaves   *)
(* on --once, compares the elapsed time with PROGRAM_DURATION_SECS, and    *)
(* sleeps.  At the end of the duration the pass waits for a line on the    *)
(* standard input and runs curl before it sleeps.  get_battery_info has    *)
(* moved the clock to the next cycle, so the elapsed time of a pass is the *)
(* time of its poll, last_update, and the sleep only moves the position.   *)
(***************************************************************************)
MaxMainPolls == 12

MainInputs == {Steady, FullIdle}

InitMain == \E run_once \in BOOLEAN : InitRun(Host, run_once)

MonitorUnchanged ==
    UNCHANGED << readings_history, power_history, smoothed_power,
                 rolling_power_window, last_update, cpu_sensors, battery_sensors,
                 last_cpu_temp, last_battery_temp, outcome, info, readings_log,
                 power_log, sysfs >>

At(pc) == main_loop.pc = pc
Goto(pc) == main_loop' = [main_loop EXCEPT !.pc = pc]

\* match monitor.get_battery_info(), Some(info): the update is shown
MainPoll ==
    /\ At("poll")
    /\ main_loop.update_count < MaxMainPolls
    /\ \E in \in MainInputs : get_battery_info(in)
    /\ main_loop' = [main_loop EXCEPT
                        !.update_count = @ + 1,
                        !.pc = IF outcome' = "panic" THEN "panic" ELSE "check"]

\* match monitor.get_battery_info(), None: std::process::exit(1)
MainVanish ==
    /\ At("poll")
    /\ main_loop.update_count < MaxMainPolls
    /\ DeviceMissing
    /\ Goto("exit")

\* if run_once { break; }
MainOnce ==
    /\ At("check")
    /\ main_loop.run_once
    /\ Goto("done")
    /\ UNCHANGED now
    /\ MonitorUnchanged

elapsed == last_update - main_loop.start_time

\* if elapsed >= PROGRAM_DURATION_SECS { ... }, the test
MainCheck ==
    /\ At("check")
    /\ ~main_loop.run_once
    /\ Goto(IF elapsed >= PROGRAM_DURATION_SECS THEN "read_line" ELSE "sleep")
    /\ UNCHANGED now
    /\ MonitorUnchanged

\* the seconds a pass can spend waiting for the line
ReadLineWaits == {0, 5}

\* io::stdin().read_line(&mut input).unwrap(): a line (or the end of the
\* input) arrives after some wait, or the read fails and unwrap panics
MainReadLine ==
    /\ At("read_line")
    /\ \/ \E wait \in ReadLineWaits :
              /\ now' = now + wait
              /\ Goto("curl")
       \/ /\ Goto("panic")
          /\ UNCHANGED now
    /\ MonitorUnchanged

\* Command::new("curl").arg("ascii.live/rick").status().expect(..): curl
\* runs and ends, with or without success, or cannot be started and expect
\* panics.  Nothing leaves the loop after it.
MainCurl ==
    /\ At("curl")
    /\ \E started \in BOOLEAN : Goto(IF started THEN "sleep" ELSE "panic")
    /\ UNCHANGED now
    /\ MonitorUnchanged

\* thread::sleep(Duration::from_secs(UPDATE_INTERVAL_SECS)), and the next
\* pass of the loop
MainSleep ==
    /\ At("sleep")
    /\ Goto("poll")
    /\ UNCHANGED now
    /\ MonitorUnchanged

NextMain ==
    \/ MainPoll
    \/ MainVanish
    \/ MainOnce
    \/ MainCheck
    \/ MainReadLine
    \/ MainCurl
    \/ MainSleep

SpecMain == InitMain /\ [][NextMain]_vars

(***************************************************************************)
(* SpecTrend: at most MaxTrendPolls cycles of a battery idle at full       *)
(* charge whose power_now reads 0.1, 0.8, 1 or 3 W, values with and        *)
(* without an exact binary64 representation.                               *)
(***************************************************************************)
MaxTrendPolls == 5

TrendPowers == {100000, 800000, 1000000, 3000000}

PollTrend == /\ Len(readings_log) < MaxTrendPolls
             /\ \E uw \in TrendPowers :
                    get_battery_info([FullIdle EXCEPT !.power_now = Num(uw)])
             /\ UNCHANGED main_loop

VanishTrend == /\ Len(readings_log) < MaxTrendPolls
               /\ DeviceMissing
               /\ UNCHANGED main_loop

NextTrend == PollTrend \/ VanishTrend

SpecTrend == Init /\ [][NextTrend]_vars

(***************************************************************************)
(* What the claims speak of: the estimate the last cycle reported, and     *)
(* the quantities of that cycle, read off the state it left.               *)
(***************************************************************************)
Reported == outcome = "info" /\ IsSome(info.time_remaining_minutes)
ReportedMinutes == Unwrap(info.time_remaining_minutes)
Status(st) == outcome = "info" /\ info.status = st

\* the weighted power of the last cycle, by the table of the specification
BlendWeights(n) ==
    IF n < 5 THEN << 8, 2, 0 >> ELSE IF n < 10 THEN << 5, 5, 0 >> ELSE << 2, 3, 5 >>
CycleRolling ==
    IF Len(rolling_power_window) >= 3
    THEN RDiv(RSum(rolling_power_window), R(Len(rolling_power_window)))
    ELSE Unwrap(smoothed_power)
CycleWeightedPower ==
    LET w == BlendWeights(Len(power_history))
    IN  RDiv(RAdd(RAdd(RMul(R(w[1]), Unwrap(info.power_w)),
                       RMul(R(w[2]), Unwrap(smoothed_power))),
                  RMul(R(w[3]), CycleRolling)),
             R(10))
HasWeightedPower == outcome = "info" /\ IsSome(info.power_w) /\ IsSome(smoothed_power)

\* the integer part and the nearest integer of a non-negative rational
FloorOf(a) == a.n \div a.d
RoundOf(a) == (2 * a.n + a.d) \div (2 * a.d)
MaxInt(i, j) == IF i < j THEN j ELSE i

\* C1: a cycle reports a time remaining only with a power reading of
\* magnitude at least 0.05 W, at least 3 samples in the power history and
\* the status Charging or Discharging
C1_ReportedOnlyWhenReady ==
    Reported =>
        /\ IsSome(info.power_w)
        /\ RGe(RAbs(Unwrap(info.power_w)), RNorm(5, 100))
        /\ Len(power_history) >= 3
        /\ info.status \in {"Charging", "Discharging"}

C1_Witness ==
    /\ Reported
    /\ info.status = "Discharging"
    /\ Len(power_history) = 3
    /\ \E i \in 1..Len(readings_log) : readings_log[i].status = "Full"

\* C2 as stated: no time remaining is reported in a cycle whose weighted
\* power is <= 0, whichever estimate is used
C2_NeverReportedWithoutPositivePower ==
    (Reported /\ HasWeightedPower) => RGt(CycleWeightedPower, RZero)

\* the estimate of the cycle came from the energy readings
EnergyEstimate ==
    \/ Status("Discharging") /\ IsSome(info.energy_now_wh)
    \/ Status("Charging") /\ IsSome(info.energy_now_wh) /\ IsSome(info.energy_full_wh)

\* C2 amended: no time remaining is reported in a cycle whose weighted power
\* is <= 0 when the estimate comes from the energy readings (energy-now for
\* Discharging, energy-now and energy-full for Charging)
C2_NeverReportedWithoutPositivePowerFromEnergy ==
    (Reported /\ HasWeightedPower /\ EnergyEstimate) => RGt(CycleWeightedPower, RZero)

C2_Witness ==
    /\ Status("Discharging")
    /\ IsSome(info.energy_now_wh)
    /\ HasWeightedPower
    /\ RLe(CycleWeightedPower, RZero)
    /\ RGe(RAbs(Unwrap(info.power_w)), RNorm(5, 100))
    /\ Len(power_history) >= 3
    /\ ~Reported

\* the efficiency the code applies to a charge progress, and the duration
\* in minutes it divides out before the floor and the cast
AppliedEfficiency(progress) ==
    IF RGt(progress, RNorm(4, 5))
    THEN RAdd(RNorm(3, 5), RMul(R(2), RSub(RNorm(9, 10), progress)))
    ELSE RNorm(9, 10)
ChargingCase ==
    /\ Reported
    /\ info.status = "Charging"
    /\ IsSome(info.energy_now_wh)
    /\ IsSome(info.energy_full_wh)
    /\ ~RIsZero(Unwrap(info.energy_full_wh))
ChargeProgress == RDiv(Unwrap(info.energy_now_wh), Unwrap(info.energy_full_wh))
ChargingDuration(efficiency) ==
    RDiv(RMul(R(60), RSub(Unwrap(info.energy_full_wh), Unwrap(info.energy_now_wh))),
         RMul(CycleWeightedPower, efficiency))
DischargingCase ==
    /\ Reported
    /\ info.status = "Discharging"
    /\ IsSome(info.energy_now_wh)
DischargingDuration ==
    RDiv(RMul(R(60), Unwrap(info.energy_now_wh)), CycleWeightedPower)
\* max(1, floor(x)) and max(1, round(x)), a negative x giving 1
FlooredMinutes(x) == IF RLt(x, R(1)) THEN 1 ELSE FloorOf(x)
RoundedMinutes(x) == IF RLt(x, R(1)) THEN 1 ELSE RoundOf(x)

\* C3: every reported time remaining is at least 1 minute, and a duration
\* that computes to less than 1 minute is reported as exactly 1
C3_AtLeastOneMinute ==
    /\ Reported => ReportedMinutes >= 1
    /\ (ChargingCase /\ ~RIsZero(AppliedEfficiency(ChargeProgress))
        /\ RLt(ChargingDuration(AppliedEfficiency(ChargeProgress)), R(1)))
           => ReportedMinutes = 1
    /\ (DischargingCase /\ RLt(DischargingDuration, R(1))) => ReportedMinutes = 1

C3_Witness ==
    /\ ChargingCase
    /\ RGe(Unwrap(info.energy_now_wh), Unwrap(info.energy_full_wh))
    /\ RLe(ChargingDuration(AppliedEfficiency(ChargeProgress)), RZero)
    /\ ReportedMinutes = 1

\* C4: after every poll the power history and the readings history hold at
\* most 300 entries and the rolling window at most 10
C4_HistoriesBounded ==
    /\ Len(power_history) <= 300
    /\ Len(readings_history) <= 300
    /\ Len(rolling_power_window) <= 10

C4_Witness ==
    /\ Len(readings_log) > 300
    /\ Len(power_log) > 300
    /\ Len(readings_history) = 300
    /\ Len(power_history) = 300
    /\ Len(rolling_power_window) = 10

\* the last k entries of a log, in order
LastOf(log, k) == SubSeq(log, Len(log) - k + 1, Len(log))
MinInt(i, j) == IF i < j THEN i ELSE j

\* C5: the histories are FIFO: after N appends they hold the last
\* min(N, 300) appended entries in their original order, so for N > 300
\* the length is 300 and the oldest retained entry is append N - 300 + 1
C5_HistoriesAreFifo ==
    /\ readings_history = LastOf(readings_log, MinInt(Len(readings_log), 300))
    /\ power_history = LastOf(power_log, MinInt(Len(power_log), 300))
    /\ Len(readings_log) > 300 =>
          /\ Len(readings_history) = 300
          /\ readings_history[1] = readings_log[Len(readings_log) - 300 + 1]
    /\ Len(power_log) > 300 =>
          /\ Len(power_history) = 300
          /\ power_history[1] = power_log[Len(power_log) - 300 + 1]

C5_Witness ==
    /\ Len(readings_log) > 301
    /\ Len(power_log) > 301
    /\ readings_history[1] = readings_log[Len(readings_log) - 299]
    /\ readings_history[1] /= readings_log[1]
    /\ power_history[300] = power_log[Len(power_log)]

\* C6 as stated: a poll of an existing battery directory never ends in a
\* panic, whatever its files hold
C6_PollNeverPanics == outcome /= "panic"

\* C7 as stated: Discharging with energy-now known, the reported minutes
\* are max(1, round(60 * energy_now / weighted power))
C7_DischargingMinutesRounded ==
    DischargingCase => ReportedMinutes = RoundedMinutes(DischargingDuration)

\* C7 amended: Discharging with energy-now known, the reported minutes are
\* max(1, floor(60 * energy_now / weighted power)): the fraction of a minute
\* is dropped, not rounded; 30 Wh at 10 W gives 180
C7_DischargingMinutesTruncated ==
    /\ DischargingCase => ReportedMinutes = FlooredMinutes(DischargingDuration)
    /\ (DischargingCase /\ info.energy_now_wh = Some(R(30)) /\ CycleWeightedPower = R(10))
           => ReportedMinutes = 180

C7_Witness ==
    /\ DischargingCase
    /\ RGt(DischargingDuration, R(1))
    /\ FloorOf(DischargingDuration) /= RoundOf(DischargingDuration)
    /\ ReportedMinutes = FloorOf(DischargingDuration)

ThreeTierEfficiency(progress) ==
    IF RGt(progress, RNorm(95, 100)) THEN RNorm(3, 10)
    ELSE IF RGt(progress, RNorm(8, 10))
    THEN RAdd(RNorm(6, 10), RMul(R(2), RSub(RNorm(9, 10), progress)))
    ELSE RNorm(9, 10)

\* C9 as stated: the charging estimate applies the three-tier efficiency:
\* 0.3 above 95% progress, 0.6 + (0.9 - progress) * 2 above 80% up to 95%,
\* 0.9 at or below 80%
C9_ThreeTierEfficiencyApplied ==
    ChargingCase
        => ReportedMinutes = FlooredMinutes(ChargingDuration(ThreeTierEfficiency(ChargeProgress)))

\* the exponential moving average of the power values of the first k polls
RECURSIVE EmaOfLog(_)
EmaOfLog(k) ==
    IF k = 0 THEN None
    ELSE LET prev == EmaOfLog(k - 1)
             p == readings_log[k].power_now_w
         IN  IF IsNone(p) THEN prev
             ELSE IF IsNone(prev) THEN p
             ELSE Some(RAdd(RMul(RNorm(1, 4), Unwrap(p)), RMul(RNorm(3, 4), Unwrap(prev))))
PolledPowers == [k \in 1..Len(readings_log) |-> readings_log[k].power_now_w]

\* C10: the smoothed power is the exponential moving average
\* 0.25 * current + 0.75 * previous over the power values polled so far, the
\* first one initialising it; the powers 10, 20, 20 give 10, 12.5, 14.375
C10_SmoothedPowerIsEma ==
    outcome = "info" =>
        /\ smoothed_power = EmaOfLog(Len(readings_log))
        /\ info.smoothed_power_w = smoothed_power
        /\ PolledPowers = << Some(R(10)), Some(R(20)), Some(R(20)) >>
              => /\ EmaOfLog(1) = Some(R(10))
                 /\ EmaOfLog(2) = Some(RNorm(25, 2))
                 /\ smoothed_power = Some(RNorm(14375, 1000))

C10_Witness ==
    /\ outcome = "info"
    /\ PolledPowers = << Some(R(10)), Some(R(20)), Some(R(20)) >>
    /\ smoothed_power = Some(RNorm(115, 8))

\* the power values fed to the smoothing so far, in order
FedPowers ==
    LET Fed(r) == IsSome(r.power_now_w)
        polled == SelectSeq(readings_log, Fed)
    IN  [k \in 1..Len(polled) |-> Unwrap(polled[k].power_now_w)]
MeanOf(samples) == RDiv(RSum(samples), R(Len(samples)))

\* C11: the rolling average is the arithmetic mean of the last min(n, 10)
\* power samples once at least 3 samples have been fed, and the smoothed
\* power while fewer than 3 have been fed; the samples 1..12 give 7.5
C11_RollingAverageIsWindowMean ==
    outcome = "info" =>
        LET average == get_rolling_average_power(rolling_power_window, smoothed_power)
        IN  /\ Len(FedPowers) >= 3
                => average = Some(MeanOf(LastOf(FedPowers, MinInt(Len(FedPowers), 10))))
            /\ Len(FedPowers) < 3 => average = smoothed_power
            /\ FedPowers = [k \in 1..12 |-> R(k)] => average = Some(RNorm(75, 10))

C11_Witness ==
    /\ outcome = "info"
    /\ FedPowers = [k \in 1..12 |-> R(k)]
    /\ Len(rolling_power_window) = 10
    /\ get_rolling_average_power(rolling_power_window, smoothed_power) = Some(RNorm(15, 2))

\* C12: the weighted power fed to the time-remaining formulas blends
\* (instantaneous, smoothed, rolling) by the number n of stored power-history
\* samples: (0.8, 0.2, 0) for n < 5, (0.5, 0.5, 0) for 5 <= n < 10 and
\* (0.2, 0.3, 0.5) for n >= 10
C12_BlendWeightsByHistorySize ==
    DischargingCase =>
        /\ weighted_power(Unwrap(info.power_w), Unwrap(smoothed_power), CycleRolling,
                          Len(power_history)) = CycleWeightedPower
        /\ ReportedMinutes
              = FlooredMinutes(RDiv(RMul(R(60), Unwrap(info.energy_now_wh)), CycleWeightedPower))

C12_Witness ==
    /\ DischargingCase
    /\ Len(power_history) >= 10
    /\ Unwrap(info.power_w) /= Unwrap(smoothed_power)
    /\ CycleRolling /= Unwrap(smoothed_power)
    /\ CycleRolling /= Unwrap(info.power_w)
    /\ \E i \in 1..Len(readings_log) :
          /\ i >= 6 /\ i < 10
          /\ IsSome(readings_log[i].power_now_w)
          /\ Unwrap(readings_log[i].power_now_w) = R(16)

\* the mean of the four first-differences, newer minus next-older, over the
\* last five stored power samples (exact; the samples of SpecLong are whole
\* watts, on which the binary64 operations of the code are exact too)
MeanPowerChange ==
    LET n == Len(power_history)
        Change(i) == RSub(power_history[n - i + 1].power_w, power_history[n - i].power_w)
    IN  RDiv(RAdd(RAdd(Change(1), Change(2)), RAdd(Change(3), Change(4))), R(4))

InBand(celsius) == RLe(R(10), celsius) /\ RLe(celsius, R(110))
\* the Celsius value a CPU channel reads: millidegrees divided by 1000
CpuRead(sensor) ==
    LET file == FileAt(sysfs.temps, sensor.path)
    IN  IF file.k = "num" THEN Some(RNorm(file.v, 1000)) ELSE None
CpuReadValid(i) == IsSome(CpuRead(cpu_sensors[i])) /\ InBand(Unwrap(CpuRead(cpu_sensors[i])))
FirstValidCpu == CHOOSE i \in 1..Len(cpu_sensors) :
                    CpuReadValid(i) /\ \A j \in 1..(i - 1) : ~CpuReadValid(j)
FamilyPriority(family) ==
    CASE family = "coretemp" -> 1
      [] family = "k10temp" -> 2
      [] family = "zenpower" -> 3
      [] family = "amdgpu" -> 4
ChannelPath(group, channel) ==
    "/sys/class/hwmon/" \o group.dir \o "/temp" \o channel.num \o "_input"
\* the place of a cataloged CPU sensor in the order of discovery: groups by
\* directory name, the channels of a group by file name
DiscoveryRank(sensor) ==
    LET hwmon == sysfs.host.hwmon
        Holds(g, c) == /\ c \in 1..Len(hwmon[g].channels)
                       /\ ChannelPath(hwmon[g], hwmon[g].channels[c]) = sensor.path
        g == CHOOSE x \in 1..Len(hwmon) : \E c \in 1..Len(hwmon[x].channels) : Holds(x, c)
        c == CHOOSE x \in 1..Len(hwmon[g].channels) : Holds(g, x)
    IN  100 * g + c

\* C13: the CPU sensors are consulted in ascending family priority
\* (coretemp 1, k10temp 2, zenpower 3, amdgpu 4), sensors of equal priority
\* in discovery order, and the query returns the reading of the first sensor
\* in that order whose read is present and in band; with k10temp discovered
\* before coretemp and both valid, the coretemp reading is returned
C13_CpuQueryFollowsPriority ==
    /\ \A i, j \in 1..Len(cpu_sensors) :
          i < j =>
             \/ FamilyPriority(cpu_sensors[i].sensor_type)
                   < FamilyPriority(cpu_sensors[j].sensor_type)
             \/ /\ FamilyPriority(cpu_sensors[i].sensor_type)
                      = FamilyPriority(cpu_sensors[j].sensor_type)
                /\ DiscoveryRank(cpu_sensors[i]) < DiscoveryRank(cpu_sensors[j])
    /\ outcome = "info" =>
          IF \E i \in 1..Len(cpu_sensors) : CpuReadValid(i)
          THEN /\ info.cpu_temperature_c = CpuRead(cpu_sensors[FirstValidCpu])
               /\ IsSome(last_cpu_temp)
               /\ Unwrap(last_cpu_temp).sensor_info = cpu_sensors[FirstValidCpu]
               /\ Unwrap(last_cpu_temp).timestamp = last_update
          ELSE info.cpu_temperature_c = None

C13_Witness ==
    /\ outcome = "info"
    /\ Len(cpu_sensors) = 2
    /\ cpu_sensors[1].sensor_type = "coretemp"
    /\ cpu_sensors[2].sensor_type = "k10temp"
    /\ DiscoveryRank(cpu_sensors[2]) < DiscoveryRank(cpu_sensors[1])
    /\ CpuReadValid(1)
    /\ CpuReadValid(2)
    /\ Unwrap(last_cpu_temp).sensor_info.sensor_type = "coretemp"
    /\ info.cpu_temperature_c = Some(R(52))

\* the Celsius value a battery source reads, by the three tiers of the
\* normalisation: millidegrees above 1000, decidegrees above 200, else degrees
ThreeTierCelsius(raw) ==
    IF raw > 1000 THEN RNorm(raw, 1000) ELSE IF raw > 200 THEN RNorm(raw, 10) ELSE R(raw)
BatteryRead(sensor) ==
    LET file == FileAt(sysfs.temps, sensor.path)
    IN  IF file.k = "num" THEN Some(ThreeTierCelsius(file.v)) ELSE None
BatteryReadValid(i) ==
    IsSome(BatteryRead(battery_sensors[i])) /\ InBand(Unwrap(BatteryRead(battery_sensors[i])))
NoCpuReadValid == \A i \in 1..Len(cpu_sensors) : ~CpuReadValid(i)
NoBatteryReadValid == \A i \in 1..Len(battery_sensors) : ~BatteryReadValid(i)

\* C14: a cycle in which no sensor of a list yields a present, in-band read
\* reports that temperature as absent, even with a last-known reading
\* cached, and leaves the cached reading as it was
C14_StaleCacheNeverReturned ==
    [][outcome' = "info" =>
          /\ NoCpuReadValid' => /\ info'.cpu_temperature_c = None
                                /\ last_cpu_temp' = last_cpu_temp
          /\ NoBatteryReadValid' => /\ info'.temperature_c = None
                                    /\ last_battery_temp' = last_battery_temp]_vars

C14_Witness ==
    /\ outcome = "info"
    /\ NoCpuReadValid
    /\ NoBatteryReadValid
    /\ IsSome(last_cpu_temp)
    /\ IsSome(last_battery_temp)
    /\ Unwrap(last_cpu_temp).timestamp < last_update
    /\ Unwrap(last_battery_temp).timestamp < last_update
    /\ info.cpu_temperature_c = None
    /\ info.temperature_c = None

\* C15: every temperature reading returned by a query or kept as last-known,
\* CPU or battery, and every temperature field of BatteryInfo lies in
\* [10, 110] C, the bounds included; a read outside the band is discarded
\* and never becomes the last-known reading
C15_TemperaturesInBand ==
    /\ IsSome(last_cpu_temp) =>
          /\ InBand(Unwrap(last_cpu_temp).raw_value)
          /\ InBand(Unwrap(last_cpu_temp).smoothed_value)
    /\ IsSome(last_battery_temp) =>
          /\ InBand(Unwrap(last_battery_temp).raw_value)
          /\ InBand(Unwrap(last_battery_temp).smoothed_value)
    /\ IsSome(info.cpu_temperature_c) => InBand(Unwrap(info.cpu_temperature_c))
    /\ IsSome(info.temperature_c) => InBand(Unwrap(info.temperature_c))
    /\ outcome = "info" =>
          /\ (\E i \in 1..Len(cpu_sensors) : CpuReadValid(i)) <=> IsSome(info.cpu_temperature_c)
          /\ (\E i \in 1..Len(battery_sensors) : BatteryReadValid(i))
                <=> IsSome(info.temperature_c)
          /\ (IsSome(last_cpu_temp) /\ Unwrap(last_cpu_temp).timestamp = last_update)
                => \E i \in 1..Len(cpu_sensors) :
                      /\ CpuReadValid(i)
                      /\ CpuRead(cpu_sensors[i]) = Some(Unwrap(last_cpu_temp).raw_value)
          /\ (IsSome(last_battery_temp) /\ Unwrap(last_battery_temp).timestamp = last_update)
                => \E i \in 1..Len(battery_sensors) :
                      /\ BatteryReadValid(i)
                      /\ BatteryRead(battery_sensors[i])
                            = Some(Unwrap(last_battery_temp).raw_value)

C15_Witness ==
    /\ outcome = "info"
    /\ IsSome(last_cpu_temp)
    /\ IsSome(last_battery_temp)
    /\ Unwrap(last_cpu_temp).raw_value = R(110)
    /\ Unwrap(last_battery_temp).raw_value = R(10)
    /\ Unwrap(last_cpu_temp).timestamp = last_update
    /\ \E i \in 1..Len(cpu_sensors) :
          /\ IsSome(CpuRead(cpu_sensors[i]))
          /\ RGt(Unwrap(CpuRead(cpu_sensors[i])), R(110))
    /\ \E i \in 1..Len(battery_sensors) :
          /\ IsSome(BatteryRead(battery_sensors[i]))
          /\ RLt(Unwrap(BatteryRead(battery_sensors[i])), R(10))

\* C16: a cataloged sensor whose read is missing, malformed or out of band
\* stays cataloged: the CPU and battery sensor lists are, after any sequence
\* of queries, the lists of the construction, members and order, and a
\* sensor's reading is returned whenever its read is valid and no sensor
\* ranked before it is valid, whatever it read in earlier cycles
C16_CatalogUnchangedByQueries ==
    /\ cpu_sensors = discover_cpu_sensors(sysfs.host)
    /\ battery_sensors = discover_battery_sensors(sysfs.host)
    /\ outcome = "info" =>
          /\ \A i \in 1..Len(cpu_sensors) :
                (CpuReadValid(i) /\ \A j \in 1..(i - 1) : ~CpuReadValid(j))
                   => /\ info.cpu_temperature_c = CpuRead(cpu_sensors[i])
                      /\ Unwrap(last_cpu_temp).sensor_info = cpu_sensors[i]
          /\ \A i \in 1..Len(battery_sensors) :
                (BatteryReadValid(i) /\ \A j \in 1..(i - 1) : ~BatteryReadValid(j))
                   => /\ info.temperature_c = BatteryRead(battery_sensors[i])
                      /\ Unwrap(last_battery_temp).sensor_info = battery_sensors[i]

\* the first battery sensor is returned again in the cycle after one in
\* which no battery sensor, so not the first either, had a valid read
C16_Witness ==
    /\ outcome = "info"
    /\ Len(readings_log) = 2
    /\ Len(battery_sensors) = 2
    /\ readings_log[1].temperature_c = None
    /\ BatteryReadValid(1)
    /\ Unwrap(last_battery_temp).sensor_info = battery_sensors[1]
    /\ info.temperature_c = BatteryRead(battery_sensors[1])

\* the documented acceptance table, the label matched case-insensitively
LabelHas(label, word) == contains(to_lowercase(Unwrap(label)), word)
DocumentedCpuSensor(family, label) ==
    CASE family = "coretemp" -> IsNone(label) \/ LabelHas(label, "package")
      [] family = "k10temp" ->
            IsNone(label) \/ LabelHas(label, "tctl") \/ LabelHas(label, "tdie")
      [] family = "zenpower" ->
            IsNone(label) \/ LabelHas(label, "tctl") \/ LabelHas(label, "tdie")
            \/ LabelHas(label, "die")
      [] family = "amdgpu" -> IsSome(label) /\ LabelHas(label, "edge")
      [] OTHER -> FALSE
\* the hwmon channels of the host: [group, channel] for every channel of
\* every group whose name can be read
NamedChannels ==
    LET hwmon == sysfs.host.hwmon
    IN  UNION { { [group |-> hwmon[g], channel |-> hwmon[g].channels[c]] :
                     c \in 1..Len(hwmon[g].channels) } :
                g \in {x \in 1..Len(hwmon) : IsSome(hwmon[x].name)} }
CatalogedCpuPaths == { cpu_sensors[i].path : i \in 1..Len(cpu_sensors) }
\* the channel read present and in band when the monitor was constructed
ChannelReadInBand(channel) ==
    channel.input.k = "num" /\ InBand(RNorm(channel.input.v, 1000))

\* C17: is_cpu_sensor(family, label) is the documented boolean, the label
\* matched case-insensitively: coretemp iff the label is absent or contains
\* "package"; k10temp iff absent or contains "tctl" or "tdie"; zenpower iff
\* absent or contains "tctl", "tdie" or "die"; amdgpu iff present and
\* contains "edge"; any other family never.  So a channel that reads in band
\* is cataloged exactly if the table accepts it
C17_CpuSensorAcceptanceTable ==
    \A nc \in NamedChannels :
        LET family == Unwrap(nc.group.name)
            label == nc.channel.label
        IN  /\ is_cpu_temp_sensor(family, label) = DocumentedCpuSensor(family, label)
            /\ ChannelReadInBand(nc.channel)
                  => (ChannelPath(nc.group, nc.channel) \in CatalogedCpuPaths
                         <=> DocumentedCpuSensor(family, label))

\* a host on which the table accepts and rejects: an upper-case "TDIE" of
\* k10temp and the "edge" of amdgpu cataloged, an unlabelled amdgpu channel,
\* a "Tccd1" of k10temp and the channels of another family not
C17_Witness ==
    /\ \E nc \in NamedChannels :
          /\ nc.group.name = Some("k10temp") /\ nc.channel.label = Some("TDIE")
          /\ ChannelPath(nc.group, nc.channel) \in CatalogedCpuPaths
    /\ \E nc \in NamedChannels :
          /\ nc.group.name = Some("amdgpu") /\ nc.channel.label = Some("edge")
          /\ ChannelPath(nc.group, nc.channel) \in CatalogedCpuPaths
    /\ \E nc \in NamedChannels :
          /\ nc.group.name = Some("amdgpu") /\ nc.channel.label = None
          /\ ChannelReadInBand(nc.channel)
          /\ ChannelPath(nc.group, nc.channel) \notin CatalogedCpuPaths
    /\ \E nc \in NamedChannels :
          /\ nc.group.name = Some("k10temp") /\ nc.channel.label = Some("Tccd1")
          /\ ChannelReadInBand(nc.channel)
          /\ ChannelPath(nc.group, nc.channel) \notin CatalogedCpuPaths
    /\ \E nc \in NamedChannels :
          /\ nc.group.name = Some("nvme")
          /\ ChannelReadInBand(nc.channel)
          /\ ChannelPath(nc.group, nc.channel) \notin CatalogedCpuPaths
    /\ outcome = "info"

CatalogedBatteryPaths == { battery_sensors[i].path : i \in 1..Len(battery_sensors) }
\* a battery source read present and, by the three tiers, in band when the
\* monitor was constructed
SourceReadInBand(entry) ==
    entry.has_temp /\ entry.temp.k = "num" /\ InBand(ThreeTierCelsius(entry.temp.v))
SupplyEntries == { sysfs.host.power_supply[i] : i \in 1..Len(sysfs.host.power_supply) }
ThermalEntries == { sysfs.host.thermal[i] : i \in 1..Len(sysfs.host.thermal) }
PlaceholderGroup(group) ==
    Unwrap(group.name) = "acpitz" \/ contains(Unwrap(group.name), "virtual")

\* C18: discovery adds a channel to the catalog only if it passes the
\* family/label test and its immediate read is present, parseable and,
\* converted (millidegrees for CPU channels, the three tiers for battery
\* sources), within [10, 110] C; a channel that cannot be read or reads out
\* of band is not added, and a hwmon group tagged "acpitz" or containing
\* "virtual" contributes no sensor
C18_DiscoveryAcceptsValidChannelsOnly ==
    /\ \A nc \in NamedChannels :
          /\ ChannelPath(nc.group, nc.channel) \in CatalogedCpuPaths
                => /\ DocumentedCpuSensor(Unwrap(nc.group.name), nc.channel.label)
                   /\ ChannelReadInBand(nc.channel)
                   /\ ~PlaceholderGroup(nc.group)
          /\ ~ChannelReadInBand(nc.channel)
                => ChannelPath(nc.group, nc.channel) \notin CatalogedCpuPaths
          /\ PlaceholderGroup(nc.group)
                => ChannelPath(nc.group, nc.channel) \notin CatalogedCpuPaths
    /\ CatalogedCpuPaths
          \subseteq { ChannelPath(nc.group, nc.channel) : nc \in NamedChannels }
    /\ CatalogedBatteryPaths
          = { "/sys/class/power_supply/" \o e.dir \o "/temp" :
                 e \in { x \in SupplyEntries :
                            /\ starts_with(x.dir, "BAT") \/ starts_with(x.dir, "battery")
                            /\ SourceReadInBand(x) } }
            \cup { "/sys/class/thermal/" \o e.dir \o "/temp" :
                      e \in { x \in ThermalEntries :
                                 x.type = Some("battery") /\ SourceReadInBand(x) } }

C18_Witness ==
    /\ outcome = "info"
    /\ \E nc \in NamedChannels :
          /\ DocumentedCpuSensor(Unwrap(nc.group.name), nc.channel.label)
          /\ nc.channel.input.k = "num" /\ ~ChannelReadInBand(nc.channel)
          /\ ChannelPath(nc.group, nc.channel) \notin CatalogedCpuPaths
    /\ \E nc \in NamedChannels :
          /\ DocumentedCpuSensor(Unwrap(nc.group.name), nc.channel.label)
          /\ nc.channel.input.k = "bad"
          /\ ChannelPath(nc.group, nc.channel) \notin CatalogedCpuPaths
    /\ \E nc \in NamedChannels : Unwrap(nc.group.name) = "acpitz"
    /\ \E nc \in NamedChannels : contains(Unwrap(nc.group.name), "virtual")
    /\ Len(cpu_sensors) = 4
    /\ \E e \in SupplyEntries : starts_with(e.dir, "BAT") /\ e.temp.k = "num"
                                /\ ~SourceReadInBand(e)
    /\ \E e \in ThermalEntries : e.type = Some("battery") /\ ~SourceReadInBand(e)
    /\ Len(battery_sensors) = 1

\* the raw values the battery normalisation has been applied to: those of
\* the battery sources at construction and those the cataloged battery
\* sensors held in the last cycle
NormalisedRaws ==
    { e.temp.v : e \in { x \in SupplyEntries :
                            /\ starts_with(x.dir, "BAT") \/ starts_with(x.dir, "battery")
                            /\ x.has_temp /\ x.temp.k = "num" } }
    \cup { e.temp.v : e \in { x \in ThermalEntries :
                                 /\ x.type = Some("battery")
                                 /\ x.has_temp /\ x.temp.k = "num" } }
    \cup { FileAt(sysfs.temps, battery_sensors[i].path).v :
              i \in { x \in 1..Len(battery_sensors) :
                         FileAt(sysfs.temps, battery_sensors[x].path).k = "num" } }
Renormalised(raw) ==
    normalize_battery_temperature(normalize_battery_temperature(R(raw)))

\* C19 as stated: the normalisation is idempotent: for every raw input,
\* normalising the normalised value again returns the same value
C19_NormalisationIdempotent ==
    \A raw \in NormalisedRaws : Renormalised(raw) = normalize_battery_temperature(R(raw))

\* C19 amended: the normalisation is idempotent for every raw input up to
\* 200000, those whose normalised value does not exceed 200 (so every one
\* that normalises into the valid band); 25000 gives 25, 350 gives 35 and
\* 42 gives 42
C19_NormalisationIdempotentUpTo200000 ==
    \A raw \in NormalisedRaws :
        /\ raw <= 200000 => Renormalised(raw) = normalize_battery_temperature(R(raw))
        /\ raw = 25000 => normalize_battery_temperature(R(raw)) = R(25)
        /\ raw = 350 => normalize_battery_temperature(R(raw)) = R(35)
        /\ raw = 42 => normalize_battery_temperature(R(raw)) = R(42)

C19_Witness ==
    /\ outcome = "info"
    /\ 25000 \in NormalisedRaws
    /\ IsSome(last_battery_temp)
    /\ Unwrap(last_battery_temp).timestamp = last_update
    /\ Unwrap(last_battery_temp).raw_value = R(25)
    /\ \E i \in 1..Len(readings_log) : readings_log[i].temperature_c = Some(R(35))
    /\ \E i \in 1..Len(readings_log) : readings_log[i].temperature_c = Some(R(42))

(***************************************************************************)
(* The power of a cycle: the power_now attribute, else voltage and         *)
(* current, else nothing.                                                  *)
(***************************************************************************)
DirectPowerReadable == sysfs.power_now.k = "num"
VoltageAndCurrentPresent == IsSome(info.voltage_v) /\ IsSome(info.current_ma)
DerivedPowerW ==
    RDiv(RMul(Unwrap(info.voltage_v),
              R(IF Unwrap(info.current_ma) < 0 THEN -Unwrap(info.current_ma)
                ELSE Unwrap(info.current_ma))),
         R(1000))

\* C21: the power of a cycle follows the fallback chain: with power_now
\* readable it is that value in watts (microwatts / 1000000) whatever the
\* voltage and current are; otherwise, with voltage and current both
\* present, it is voltage_v * |current_ma| / 1000, which is not negative for
\* the voltages of the model (voltage_now is never below zero); with
\* neither, the power is absent and so is the time remaining of the cycle
C21_PowerFallbackChain ==
    outcome = "info" =>
        /\ DirectPowerReadable =>
               info.power_w = Some(RNorm(sysfs.power_now.v, 1000000))
        /\ ~DirectPowerReadable /\ VoltageAndCurrentPresent =>
               /\ info.power_w = Some(DerivedPowerW)
               /\ RGe(DerivedPowerW, RZero)
        /\ ~DirectPowerReadable /\ ~VoltageAndCurrentPresent =>
               /\ info.power_w = None
               /\ info.time_remaining_minutes = None
        /\ readings_log[Len(readings_log)].power_now_w = info.power_w

\* all three routes taken in one run: a direct reading that differs from
\* voltage times current, a power derived from a negative current, and a
\* cycle with neither
C21_Witness ==
    /\ outcome = "info"
    /\ Len(readings_log) >= 3
    /\ ~DirectPowerReadable /\ ~VoltageAndCurrentPresent
    /\ info.power_w = None
    /\ LET derived == readings_log[Len(readings_log) - 1]
           direct == readings_log[Len(readings_log) - 2]
       IN  /\ derived.power_now_w = Some(R(12))
           /\ Unwrap(derived.current_ma) < 0
           /\ direct.power_now_w = Some(R(10))
           /\ direct.voltage_v = Some(R(12))
           /\ direct.current_ma = Some(-1000)

\* C22: the capacity of every BatteryReading appended to the history and of
\* every BatteryInfo returned by a cycle lies between 0 and 100, whatever
\* the capacity attribute contains
C22_CapacityWithinPercent ==
    /\ \A i \in 1..Len(readings_log) : readings_log[i].capacity_percent \in 0..100
    /\ outcome = "info" => info.capacity_percent \in 0..100

\* the power the charging estimate divides by: weighted power * efficiency
EffectiveChargingPower == RMul(CycleWeightedPower, AppliedEfficiency(ChargeProgress))

\* C23: every division of the time-remaining computation has a strictly
\* positive power as divisor: the weighted power of a Discharging estimate
\* and the effective power (weighted power * efficiency) of a Charging
\* estimate are above zero in every cycle that divides by them, whatever
\* energy_now, energy_full, voltage, current and weighted power are
C23_DivisorsStrictlyPositive ==
    /\ DischargingCase => RGt(CycleWeightedPower, RZero)
    /\ ChargingCase => RGt(EffectiveChargingPower, RZero)

\* C24: without --once the loop stops by itself: no polling cycle starts
\* after a pass that found PROGRAM_DURATION_SECS = 20 seconds elapsed since
\* the start; with --once exactly one polling cycle runs before the loop is
\* left
C24_LoopAutoStops ==
    /\ ~main_loop.run_once =>
           \A i \in 2..Len(readings_log) :
               readings_log[i - 1].timestamp - main_loop.start_time
                   < PROGRAM_DURATION_SECS
    /\ main_loop.run_once =>
           /\ Len(readings_log) <= 1
           /\ main_loop.pc = "done" => Len(readings_log) = 1

\* the cycles that found both a power and an energy-now reading
SampledCycles ==
    { i \in 1..Len(readings_log) :
          IsSome(readings_log[i].power_now_w) /\ IsSome(readings_log[i].energy_now_wh) }
EnergyNeverRead ==
    \A i \in 1..Len(readings_log) : IsNone(readings_log[i].energy_now_wh)

\* C25: the power history gains a sample exactly in the cycles that found
\* both a power and an energy-now reading; so in a run whose cycles all lack
\* energy-now the power history stays empty and no cycle reports a time
\* remaining, and an estimate from voltage and current is reported only
\* once at least 3 cycles, the current one included, had energy-now
C25_SamplesNeedPowerAndEnergy ==
    /\ Len(power_log) = Cardinality(SampledCycles)
    /\ EnergyNeverRead => power_history = << >> /\ ~Reported
    /\ (Reported /\ ~EnergyEstimate) => Cardinality(SampledCycles) >= 3

\* four Discharging cycles with power, voltage and current known and
\* energy-now absent: nothing sampled, nothing reported
C25_Witness ==
    /\ Len(readings_log) = 4
    /\ EnergyNeverRead
    /\ \A i \in 1..4 :
           /\ readings_log[i].status = "Discharging"
           /\ IsSome(readings_log[i].power_now_w)
           /\ IsSome(readings_log[i].voltage_v)
           /\ IsSome(readings_log[i].current_ma)
    /\ power_history = << >>
    /\ ~Reported

\* the mean of the rolling window
WindowMean == RDiv(RSum(rolling_power_window), R(Len(rolling_power_window)))

\* C26: after every poll the rolling window holds at least
\* min(power_history.len(), 10) samples and the smoothed power is present
\* whenever the power history is not empty; so with 10 or more samples in
\* the history, where the weights 0.2, 0.3, 0.5 apply, the window is full
\* and the rolling term is the mean of its 10 samples, not the smoothed
\* value
C26_WindowCoversHistory ==
    /\ Len(rolling_power_window) >= MinInt(Len(power_history), ROLLING_WINDOW_SIZE)
    /\ power_history /= << >> => IsSome(smoothed_power)
    /\ Len(power_history) >= ROLLING_WINDOW_SIZE =>
           /\ BlendWeights(Len(power_history)) = << 2, 3, 5 >>
           /\ Len(rolling_power_window) = 10
           /\ get_rolling_average_power(rolling_power_window, smoothed_power)
                  = Some(WindowMean)

\* ten samples in the history after more than ten cycles with a power
\* reading, the mean of the full window different from the smoothed value
C26_Witness ==
    /\ Len(power_history) >= 10
    /\ Len(readings_log) > Len(power_history)
    /\ Len(rolling_power_window) = 10
    /\ \A i \in 1..Len(readings_log) : IsSome(readings_log[i].power_now_w)
    /\ WindowMean /= Unwrap(smoothed_power)

\* the reading a cycle has just appended
NewReading == readings_log'[Len(readings_log')]

\* C27: a poll that finds the device but no power leaves the smoothed
\* power, the rolling window and the power history as they were and reports
\* no time remaining, and still appends exactly one BatteryReading to the
\* readings history and sets last_update to the timestamp of the cycle
C27_PowerlessPollFrame ==
    [][(outcome' = "info" /\ IsNone(info'.power_w)) =>
          /\ smoothed_power' = smoothed_power
          /\ rolling_power_window' = rolling_power_window
          /\ power_history' = power_history
          /\ power_log' = power_log
          /\ IsNone(info'.time_remaining_minutes)
          /\ readings_log' = Append(readings_log, NewReading)
          /\ readings_history' = PushBounded(readings_history, NewReading)
          /\ Len(readings_history') = MinInt(Len(readings_history) + 1, MAX_HISTORY_SIZE)
          /\ IsNone(NewReading.power_now_w)
          /\ NewReading.timestamp = now
          /\ last_update' = now
          /\ last_update' /= last_update]_vars

\* a cycle without power after three sampled cycles: the samples and the
\* smoothed power are kept, a fourth reading is in the history, no time
\* remaining is reported though the battery is Discharging
C27_Witness ==
    /\ outcome = "info"
    /\ IsNone(info.power_w)
    /\ info.status = "Discharging"
    /\ IsNone(info.time_remaining_minutes)
    /\ Len(power_history) = 3
    /\ Len(rolling_power_window) = 3
    /\ smoothed_power = Some(R(10))
    /\ Len(readings_history) = 4
    /\ readings_history[4].timestamp = last_update
    /\ IsNone(readings_history[4].power_now_w)

\* C28: a poll that finds the battery directory missing returns nothing and
\* changes no state: the readings history, the power history, the smoothed
\* power, the rolling window, last_update and the last known temperatures
\* are as before, and no temperature file is read in that cycle
C28_MissingDevicePollFrame ==
    [][outcome' = "absent" =>
          /\ outcome /= "absent"
          /\ UNCHANGED << readings_history, power_history, smoothed_power,
                          rolling_power_window, last_update, last_cpu_temp,
                          last_battery_temp >>
          /\ UNCHANGED << readings_log, power_log, cpu_sensors, battery_sensors >>
          /\ sysfs' = sysfs]_vars

\* the directory vanishes after two cycles that filled the histories, the
\* smoothing state and both temperature caches
C28_Witness ==
    /\ outcome = "absent"
    /\ Len(readings_history) = 2
    /\ Len(power_history) = 2
    /\ Len(rolling_power_window) = 2
    /\ IsSome(smoothed_power)
    /\ IsSome(last_cpu_temp)
    /\ IsSome(last_battery_temp)
    /\ last_update = readings_history[2].timestamp
    /\ Unwrap(last_cpu_temp).timestamp = last_update

\* the last cycle ran the Charging estimate from voltage and current, and
\* with it the subtraction `100 - info.capacity_percent`
ChargingFallbackCase ==
    /\ outcome = "info"
    /\ info.status = "Charging"
    /\ ~(IsSome(info.energy_now_wh) /\ IsSome(info.energy_full_wh))
    /\ IsSome(info.power_w)
    /\ ~BelowPowerThreshold(Unwrap(info.power_w))
    /\ ~InsufficientSamples(Len(power_history))
    /\ IsSome(info.voltage_v) /\ IsSome(info.current_ma)
    /\ Unwrap(info.current_ma) > 0
    /\ RGt(Unwrap(info.voltage_v), RZero)

\* C29: in every cycle that computes 100 - capacity_percent on the unsigned
\* 8-bit capacity, capacity_percent is at most 100: the subtraction neither
\* panics on overflow nor wraps around to a value above 100
C29_SubtractionNeverUnderflows ==
    /\ outcome /= "panic"
    /\ ChargingFallbackCase =>
           /\ info.capacity_percent <= 100
           /\ ~U8Sub(100, info.capacity_percent).overflow
           /\ U8Sub(100, info.capacity_percent).v <= 100

\* the newest stored power sample less the fifth newest, in exact
\* arithmetic, and the avg_change the code computes from the last five
NewestLessFifth ==
    LET n == Len(power_history)
    IN  RSub(power_history[n].power_w, power_history[n - 4].power_w)
CycleAvgChange ==
    LET n == Len(power_history)
    IN  AvgChange(power_history[n].power_w, power_history[n - 1].power_w,
                  power_history[n - 2].power_w, power_history[n - 3].power_w,
                  power_history[n - 4].power_w)
\* two binary64 values less than 2^-40 apart
F64Close(x, y) == BigLt(F64Sub(x, y).mag, BigPow2(44))

\* C30 as stated: the mean of the four first-differences over the last 5
\* power samples equals (newest - fifth newest) / 4, so the trend depends
\* on those two samples only: "increasing" iff newest - fifth newest is
\* above 2.0 W, "decreasing" iff it is below -2.0 W, whatever the three
\* samples in between
C30_TrendFromEndpointsOnly ==
    (outcome = "info" /\ Len(power_history) >= 5) =>
        /\ CycleAvgChange = F64Of(RDiv(NewestLessFifth, R(4)))
        /\ info.power_trend = "increasing" <=> RGt(NewestLessFifth, R(2))
        /\ info.power_trend = "decreasing" <=> RLt(NewestLessFifth, R(-2))

\* C30 amended: the mean of the four first-differences equals
\* (newest - fifth newest) / 4 up to the rounding of the binary64
\* operations, so the trend is "increasing" when newest - fifth newest is
\* above 2.0 W, "decreasing" when it is below -2.0 W and "stable" when it is
\* strictly between; when it is exactly 2.0 W (or -2.0 W) the three samples
\* in between decide, through the rounding, between "increasing" (or
\* "decreasing") and "stable"
C30_TrendFromEndpointsUpToRounding ==
    (outcome = "info" /\ Len(power_history) >= 5) =>
        /\ F64Close(CycleAvgChange, F64Of(RDiv(NewestLessFifth, R(4))))
        /\ RGt(NewestLessFifth, R(2)) => info.power_trend = "increasing"
        /\ RLt(NewestLessFifth, R(-2)) => info.power_trend = "decreasing"
        /\ (RLt(NewestLessFifth, R(2)) /\ RGt(NewestLessFifth, R(-2)))
               => info.power_trend = "stable"
        /\ NewestLessFifth = R(2) => info.power_trend \in {"increasing", "stable"}
        /\ NewestLessFifth = R(-2) => info.power_trend \in {"decreasing", "stable"}

\* the samples 1, 1, 0.1, 0.8 and 3 W: the newest is exactly 2.0 W above the
\* fifth newest, the computed mean is above 0.5 and the trend "increasing"
C30_Witness ==
    /\ outcome = "info"
    /\ Len(power_history) = 5
    /\ [i \in 1..5 |-> power_history[i].power_w]
          = << R(1), R(1), RNorm(1, 10), RNorm(8, 10), R(3) >>
    /\ NewestLessFifth = R(2)
    /\ F64Lt(F64Half, CycleAvgChange)
    /\ info.power_trend = "increasing"

====
